---------------------------- MODULE Spec2Model ----------------------------
(***************************************************************************)
(* Model of the safety-gated turn pipeline of the mental-health companion  *)
(* backend (backend/app): the crisis rules of agents/safety.py, the critic *)
(* of agents/critic_agent.py, the retrieval of agents/skillcards.py, the   *)
(* orchestration and validate_and_repair of orchestrator.py, and the chat  *)
(* endpoints of main.py.                                                   *)
(*                                                                         *)
(* A Python str is modelled as a sequence of one-character strings.  The   *)
(* characters U+2019 and U+2014 are written "RSQUO" and "EMDASH".          *)
(***************************************************************************)
EXTENDS Integers, Sequences, FiniteSets, TLC

VARIABLES
    pc,              \* control point of the request being served
    endpoint,        \* "chat" | "api_chat" | "stream" | "unit" (direct call of validate_and_repair)
    cfg,             \* the deployment: database rows, ENABLE_OPENAI_MODERATION, and what
                     \* the moderation service does when it is asked
    state,           \* the TurnState of run_pipeline
    strategy_source, \* run_pipeline's local strategy_source
    draft_msg,       \* run_pipeline's local draft_msg
    crit,            \* the dict returned by critic_fix
    result,          \* the dict returned by run_pipeline (NoResult until it returns)
    calls,           \* the collaborators invoked so far, in order
    delivered,       \* the pieces of text sent to the user for the request, in order
    response,        \* what the endpoint answered: "none" | "ok" | "error_500" | "chat_failed"
    chunks,          \* number of chunks the streaming endpoint has received
    snap,            \* the TurnState handed to the last call of validate_and_repair
    index,           \* skillcards' _INDEX, _VOCAB_DF and _N_DOCS (NotBuilt until first use)
    failed,          \* the collaborators whose external call raised during the request
    ret,             \* what a direct call of the gate or of the ranker returned
    co,              \* the requests in flight at the same time: where each coroutine is
                     \* and the index its ranking read
    loop,            \* the coroutine the event loop is running (0: none, all are awaiting)
    made             \* how often the process built the index and the mood model handle,
                     \* and whether _pipe's cache holds the handle

\* the state of the concurrent first callers
loop_vars == <<co, loop, made>>

\* the request of one turn, its locals and what the endpoint sends
turn_vars == <<pc, endpoint, cfg, state, strategy_source, draft_msg, crit, result, calls,
               delivered, response, chunks, snap, failed, ret>>

vars == <<turn_vars, index, loop_vars>>

-----------------------------------------------------------------------------
(* Python str primitives                                                   *)

UpperChars == <<"A", "B", "C", "D", "E", "F", "G", "H", "I", "J", "K", "L", "M",
                "N", "O", "P", "Q", "R", "S", "T", "U", "V", "W", "X", "Y", "Z">>

LowerChars == <<"a", "b", "c", "d", "e", "f", "g", "h", "i", "j", "k", "l", "m",
                "n", "o", "p", "q", "r", "s", "t", "u", "v", "w", "x", "y", "z">>

UpperSet == {UpperChars[i] : i \in 1..26}

LowerSet == {LowerChars[i] : i \in 1..26}

\* str.lower() on one character
LowerChar(c) ==
    IF c \in UpperSet THEN LowerChars[CHOOSE i \in 1..26 : UpperChars[i] = c] ELSE c

\* the list f[1], ..., f[n] as a tuple (a function over 1..n and the tuple of its values
\* are the same value; the tuple is computed once)
List(f) == f \o <<>>

\* str.lower()
Lower(s) == List([i \in 1..Len(s) |-> LowerChar(s[i])])

\* needle in hay
Contains(hay, needle) ==
    \E i \in 0..(Len(hay) - Len(needle)) :
        /\ needle = <<>> \/ hay[i + 1] = needle[1]
        /\ SubSeq(hay, i + 1, i + Len(needle)) = needle

\* s[:n]
Prefix(s, n) == SubSeq(s, 1, IF Len(s) < n THEN Len(s) ELSE n)

\* str.isspace() on one character
IsSpace(c) == c \in {" ", "\n", "\t"}

\* str.rstrip()
RStrip(s) ==
    LET keep == {i \in 1..Len(s) : ~IsSpace(s[i])}
    IN  IF keep = {} THEN <<>>
        ELSE SubSeq(s, 1, CHOOSE i \in keep : \A j \in (i + 1)..Len(s) : j \notin keep)

\* str.strip()
Strip(s) ==
    LET keep == {i \in 1..Len(s) : ~IsSpace(s[i])}
    IN  IF keep = {} THEN <<>>
        ELSE SubSeq(s, CHOOSE i \in keep : \A j \in 1..(i - 1) : j \notin keep,
                       CHOOSE i \in keep : \A j \in (i + 1)..Len(s) : j \notin keep)

\* len(s.split())
WordCount(s) ==
    Cardinality({i \in 1..Len(s) : ~IsSpace(s[i]) /\ (i = 1 \/ IsSpace(s[i - 1]))})

\* regex \w on one character
IsWordChar(c) ==
    c \in {"0", "1", "2", "3", "4", "5", "6", "7", "8", "9", "_"} \cup UpperSet \cup LowerSet

\* regex \b between t[k] and t[k+1] (k = 0 is the start, k = Len(t) the end)
BoundaryAt(t, k) ==
    LET w(j) == j \in 1..Len(t) /\ IsWordChar(t[j])
    IN  w(k) # w(k + 1)

-----------------------------------------------------------------------------
(* orchestrator.py: TurnState, validate_and_repair                         *)

CRISIS_MESSAGE ==
    <<"I", "RSQUO", "m", " ", "r", "e", "a", "l", "l", "y", " ", "c", "o", "n", "c", "e", "r", "n",
        "e", "d", " ", "a", "b", "o", "u", "t", " ", "s", "a", "f", "e", "t", "y", " ", "h", "e",
        "r", "e", ".", " ", "I", " ", "c", "a", "n", "RSQUO", "t", " ", "h", "e", "l", "p", " ",
        "w", "i", "t", "h", " ", "a", "n", "y", "t", "h", "i", "n", "g", " ", "t", "h", "a", "t",
        " ", "c", "o", "u", "l", "d", " ", "p", "u", "t", " ", "y", "o", "u", " ", "o", "r", " ",
        "o", "t", "h", "e", "r", "s", " ", "a", "t", " ", "r", "i", "s", "k", ".", " ", "P", "l",
        "e", "a", "s", "e", " ", "c", "o", "n", "t", "a", "c", "t", " ", "l", "o", "c", "a", "l",
        " ", "e", "m", "e", "r", "g", "e", "n", "c", "y", " ", "s", "e", "r", "v", "i", "c", "e",
        "s", " ", "o", "r", " ", "a", " ", "c", "r", "i", "s", "i", "s", " ", "h", "o", "t", "l",
        "i", "n", "e", " ", "r", "i", "g", "h", "t", " ", "n", "o", "w", ".", " ", "I", "f", " ",
        "y", "o", "u", " ", "c", "a", "n", ",", " ", "r", "e", "a", "c", "h", " ", "o", "u", "t",
        " ", "t", "o", " ", "s", "o", "m", "e", "o", "n", "e", " ", "y", "o", "u", " ", "t", "r",
        "u", "s", "t", " ", "s", "o", " ", "y", "o", "u", "RSQUO", "r", "e", " ", "n", "o", "t",
        " ", "a", "l", "o", "n", "e", ".">>

UNSAFE_HINTS ==
    {<<"k", "i", "l", "l">>, <<"s", "u", "i", "c", "i", "d", "e">>, <<"s", "t", "a", "b">>, <<"s",
        "h", "o", "o", "t">>, <<"h", "a", "r", "m">>, <<"h", "u", "r", "t">>, <<"e", "x", "p", "l",
        "o", "d", "e">>, <<"b", "o", "m", "b">>,
     <<"a", "t", "t", "a", "c", "k">>, <<"p", "o", "i", "s", "o", "n">>, <<"u", "n", "a", "l", "i",
         "v", "e">>}

\* the length of the strategy prefix that validate_and_repair looks for
EchoPrefixLen == 20

_likely_unsafe(s) ==
    LET t == Lower(s)
    IN  \E k \in UNSAFE_HINTS : Contains(t, k)

\* TurnState(user_text=..., history=...) with the dataclass defaults
TurnState(user_text, history) ==
    [user_text |-> user_text, history |-> history, crisis |-> "none", mood |-> <<"n", "e", "u", "t",
        "r", "a", "l">>,
     strategy |-> <<>>, encouragement |-> <<>>, advice_given |-> FALSE]

\* a crisis override that replaces the message and leaves the step in place
CrisisOverrideKeepsStep(st, crisis) ==
    [st EXCEPT !.crisis = crisis, !.mood = <<"u", "n", "k", "n", "o", "w",
        "n">>, !.encouragement = CRISIS_MESSAGE]

\* the crisis override both crisis branches of validate_and_repair apply
CrisisOverride(st, crisis) ==
    [st EXCEPT !.crisis = crisis, !.mood = <<"u", "n", "k", "n", "o", "w", "n">>, !.strategy = <<>>,
               !.encouragement = CRISIS_MESSAGE, !.advice_given = FALSE]

\* the test that decides whether the strategy is appended to the message
NeedsEcho(st) ==
    /\ st.advice_given
    /\ st.strategy # <<>>
    /\ ~Contains(Lower(st.encouragement), Lower(Prefix(st.strategy, EchoPrefixLen)))

\* f"{(state.encouragement or '').rstrip()}\n\nWhy this:\n- {state.strategy}"
EchoAppend(st) == RStrip(st.encouragement) \o <<"\n", "\n", "W", "h", "y", " ", "t", "h", "i", "s",
    ":", "\n", "-", " ">> \o st.strategy

\* a post-generation scan that reads the message and not the strategy
PostScanMessageOnly(st) == _likely_unsafe(st.encouragement)

\* the post-generation scan of the strategy and of the message
PostScanUnsafe(st) == _likely_unsafe(st.strategy) \/ _likely_unsafe(st.encouragement)

\* validate_and_repair without its last step, the clearing of an unoffered strategy
RepairWithoutClearing(st) ==
    IF st.crisis # "none" THEN CrisisOverride(st, st.crisis)
    ELSE IF PostScanUnsafe(st) THEN CrisisOverride(st, "self_harm")
    ELSE IF NeedsEcho(st) THEN [st EXCEPT !.encouragement = EchoAppend(st)]
    ELSE st

validate_and_repair(st) ==
    IF st.crisis # "none" THEN CrisisOverride(st, st.crisis)
    ELSE IF PostScanUnsafe(st) THEN CrisisOverride(st, "self_harm")
    ELSE LET echoed == IF NeedsEcho(st)
                       THEN [st EXCEPT !.encouragement = EchoAppend(st)]
                       ELSE st
         IN  IF ~echoed.advice_given THEN [echoed EXCEPT !.strategy = <<>>] ELSE echoed

-----------------------------------------------------------------------------
(* agents/safety.py: _normalize, _expand_slang, the rule families,         *)
(* detect_crisis.  NFKC and accent stripping are the identity on the       *)
(* characters modelled here.                                               *)

\* the elements of s at the indices lo..hi that are in K, in order
RECURSIVE SelectRange(_, _, _, _)
SelectRange(s, K, lo, hi) ==
    IF lo > hi THEN <<>>
    ELSE IF lo = hi THEN (IF lo \in K THEN <<s[lo]>> ELSE <<>>)
    ELSE LET mid == (lo + hi) \div 2
         IN  SelectRange(s, K, lo, mid) \o SelectRange(s, K, mid + 1, hi)

\* the subsequence of s at the indices in K, in order
SeqOfIdx(s, K) == SelectRange(s, K, 1, Len(s))

\* re.sub(r"(.)\1{2,}", r"\1\1", s): a run of three or more keeps two ("." is not "\n")
CollapseRepeats(s) ==
    SeqOfIdx(s, {i \in 1..Len(s) :
                    ~(i >= 3 /\ s[i] # "\n" /\ s[i] = s[i - 1] /\ s[i] = s[i - 2])})

\* re.sub(r"\s+", " ", s).strip()
CollapseSpace(s) ==
    LET t == List([i \in 1..Len(s) |-> IF IsSpace(s[i]) THEN " " ELSE s[i]])
    IN  Strip(SeqOfIdx(t, {i \in 1..Len(t) : ~(t[i] = " " /\ i > 1 /\ t[i - 1] = " ")}))

\* NFKD without the combining marks; U+00E9 (e with acute) is written "EACUTE"
_strip_accents(s) == List([i \in 1..Len(s) |-> IF s[i] = "EACUTE" THEN "e" ELSE s[i]])

\* _normalize(s): lower(), NFKC, _strip_accents, the three replace() and the three
\* re.sub(), in the order of the source. "RSQUO", "ENDASH" and "EMDASH" are U+2019,
\* U+2013 and U+2014; "ZWSP" is U+200B; "DSTRUCK_H" is U+210D (double-struck capital H),
\* which str.lower() leaves alone and NFKC turns into "H"
_normalize(s) ==
    LET nfkc(t) == List([i \in 1..Len(t) |-> IF t[i] = "DSTRUCK_H" THEN "H" ELSE t[i]])
        unified(t) == List([i \in 1..Len(t) |->
                               IF t[i] = "RSQUO" THEN "'"
                               ELSE IF t[i] \in {"ENDASH", "EMDASH"} THEN "-"
                               ELSE t[i]])
        blanked(t) == List([i \in 1..Len(t) |-> IF t[i] \in {"_", "ZWSP"} THEN " " ELSE t[i]])
    IN  CollapseSpace(blanked(CollapseRepeats(unified(_strip_accents(nfkc(Lower(s)))))))

\* The regex of a SLANG_MAP key, as a sequence of characters and of "W*" (\W*).
\* re.escape leaves "/" alone, so only "*" becomes \W*.
SLANG_MAP ==
    <<[key |-> <<"k", "m", "s">>,                       val |-> <<"k", "i", "l", "l", " ", "m", "y",
        "s", "e", "l", "f">>],
      [key |-> <<"k", " ", "m", " ", "s">>,                     val |-> <<"k", "i", "l", "l", " ",
          "m", "y", "s", "e", "l", "f">>],
      [key |-> <<"k", "W*", "m", "W*", "s">>, val |-> <<"k", "i", "l", "l", " ", "m", "y", "s", "e",
          "l", "f">>],
      [key |-> <<"k", "/", "m", "s">>,                      val |-> <<"k", "i", "l", "l", " ", "m",
          "y", "s", "e", "l", "f">>],
      [key |-> <<"s", "/", "h">>,                       val |-> <<"s", "e", "l", "f", " ", "h", "a",
          "r", "m">>],
      [key |-> <<"u", "n", "a", "l", "i", "v", "e">>,                   val |-> <<"s", "u", "i",
          "c", "i", "d", "e">>],
      [key |-> <<"e", "n", "d", " ", "i", "t">>,                    val |-> <<"e", "n", "d", " ",
          "m", "y", " ", "l", "i", "f", "e">>],
      [key |-> <<"e", "n", "d", " ", "m", "y", "s", "e", "l", "f">>,                val |-> <<"e",
          "n", "d", " ", "m", "y", " ", "l", "i", "f", "e">>],
      [key |-> <<"o", "f", "f", " ", "m", "y", "s", "e", "l", "f">>,                val |-> <<"k",
          "i", "l", "l", " ", "m", "y", "s", "e", "l", "f">>],
      [key |-> <<"i", " ", "c", "a", "n", "t", " ", "g", "o", " ", "o",
          "n">>,              val |-> <<"e", "n", "d", " ", "m", "y", " ", "l", "i", "f", "e">>],
      [key |-> <<"t", "a", "k", "e", " ", "m", "y", " ", "l", "i", "f",
          "e">>,              val |-> <<"e", "n", "d", " ", "m", "y", " ", "l", "i", "f", "e">>]>>

\* the position after the match of key[k..] at position pos of t (pos characters are
\* before it), or -1; \W* is greedy and is always followed by a word character
RECURSIVE KeyMatchEnd(_, _, _, _)
KeyMatchEnd(t, pos, key, k) ==
    IF k > Len(key) THEN pos
    ELSE IF key[k] = "W*"
         THEN LET stop == {j \in pos..Len(t) : j = Len(t) \/ IsWordChar(t[j + 1])}
                  nxt  == CHOOSE j \in stop : \A h \in stop : j <= h
              IN  KeyMatchEnd(t, nxt, key, k + 1)
    ELSE IF pos < Len(t) /\ t[pos + 1] = key[k] THEN KeyMatchEnd(t, pos + 1, key, k + 1)
    ELSE -1

\* re.sub(rf"\b{pattern}\b", f" {val} ", t) from position pos on: the leftmost match
\* is replaced and the scan goes on after it
RECURSIVE SubKey(_, _, _, _)
SubKey(t, pos, key, val) ==
    LET starts == {p \in pos..(Len(t) - 1) :
                      /\ KeyMatchEnd(t, p, key, 1) > p
                      /\ BoundaryAt(t, p)
                      /\ BoundaryAt(t, KeyMatchEnd(t, p, key, 1))}
    IN  IF starts = {} THEN SubSeq(t, pos + 1, Len(t))
        ELSE LET p == CHOOSE x \in starts : \A y \in starts : x <= y
             IN  SubSeq(t, pos + 1, p) \o << " " >> \o val \o << " " >>
                    \o SubKey(t, KeyMatchEnd(t, p, key, 1), key, val)

RECURSIVE SubAllKeys(_, _)
SubAllKeys(t, k) ==
    IF k > Len(SLANG_MAP) THEN t
    ELSE SubAllKeys(SubKey(t, 0, SLANG_MAP[k].key, SLANG_MAP[k].val), k + 1)

_expand_slang(s) == CollapseSpace(SubAllKeys(<< " " >> \o s \o << " " >>, 1))

\* A rule is a sequence of slots; a slot is a set of alternatives (<<>> makes the slot
\* optional).  An alternative is a literal or one of the atoms below.
StarDashSpace == << "[-\\s]*" >>
PlusSpace == << "\\s+" >>
OptAnyChar == << ".?" >>

\* the positions an alternative can end at when it starts after pos characters of t
AltEnds(t, pos, alt) ==
    IF alt = StarDashSpace
    THEN {e \in pos..Len(t) : \A j \in (pos + 1)..e : t[j] = "-" \/ IsSpace(t[j])}
    ELSE IF alt = PlusSpace
    THEN {e \in (pos + 1)..Len(t) : \A j \in (pos + 1)..e : IsSpace(t[j])}
    ELSE IF alt = OptAnyChar
    THEN {pos} \cup {e \in {pos + 1} : e <= Len(t) /\ t[e] # "\n"}
    ELSE {e \in {pos + Len(alt)} :
             /\ e <= Len(t)
             /\ alt = <<>> \/ t[pos + 1] = alt[1]
             /\ SubSeq(t, pos + 1, e) = alt}

\* slots[k..] match t from position pos on; eb: the rule ends with \b
RECURSIVE MatchFrom(_, _, _, _, _)
MatchFrom(t, pos, slots, k, eb) ==
    IF k > Len(slots) THEN eb => BoundaryAt(t, pos)
    ELSE \E alt \in slots[k] :
            \E e \in AltEnds(t, pos, alt) : MatchFrom(t, e, slots, k + 1, eb)

\* re.search(r"\b...", t) for one rule
RuleSearch(t, slots, eb) ==
    \E pos \in 0..Len(t) : MatchFrom(t, pos, slots, 1, eb) /\ BoundaryAt(t, pos)

\* In normalised text \s+ is one space and \s* is an optional space.
SP == {<<" ">>}
OptSP == {<<>>, <<" ">>}
IM == {<<"i", " ", "a", "m">>, <<"i", "a", "m">>, <<"i", "'", "m">>, <<"i", "m">>}
OptA == {<<>>, <<"a", " ">>}
Intent == {<<"i", " ", "w", "a", "n", "t", " ", "t", "o">>, <<"i", "m", " ", "g", "o", "i", "n",
    "g", " ", "t", "o">>, <<"g", "o", "n", "n", "a">>}

SELF_HARM_PATTERNS ==
    {<<{<<"k", "i", "l", "l", " ", "m", "y", "s", "e", "l", "f">>}>>,
     <<{<<"e", "n", "d", " ", "m", "y", " ", "l", "i", "f", "e">>}>>,
     <<{<<"t", "a", "k", "e", " ", "m", "y", " ", "l", "i", "f", "e">>}>>,
     <<{<<"h", "u", "r", "t">>, <<"c", "u", "t">>}, {<<" ", "m", "y", "s", "e", "l", "f">>}>>,
     <<{<<"s", "u", "i", "c", "i", "d", "e">>}>>,
     <<{<<"s", "e", "l", "f">>}, {StarDashSpace}, {<<"h", "a", "r", "m">>}>>,
     <<Intent, OptSP, {<<"d", "i", "e">>, <<"e", "n", "d", "i", "t">>, <<"e", "n", "d", " ", "i",
         "t">>, <<"e", "n", "d", "e", "v", "e", "r", "y", "t", "h", "i", "n", "g">>, <<"e", "n",
         "d", " ", "e", "v", "e", "r", "y", "t", "h", "i", "n", "g">>,
                       <<"k", "i", "l", "l", "m", "y", "s", "e", "l", "f">>, <<"k", "i", "l", "l",
                           " ", "m", "y", "s", "e", "l", "f">>}>>,
     <<{<<"e", "n", "d", " ", "i", "t", " ", "a", "l", "l">>, <<"i", " ", "w", "a", "n", "t", " ",
         "t", "o", " ", "d", "i", "e">>, <<"i", " ", "w", "a", "n", "t", " ", "t", "o", " ", "e",
         "n", "d", " ", "i", "t">>}>>,
     <<{<<"c", "a", "n", "'", "t", " ", "g", "o", " ", "o", "n">>, <<"c", "a", "n", "t", " ", "g",
         "o", " ", "o", "n">>, <<"n", "o", " ", "r", "e", "a", "s", "o", "n", " ", "t", "o", " ",
         "l", "i", "v", "e">>}>>,
     <<{<<"u", "n", "a", "l", "i", "v", "e", " ", "m", "y", "s", "e", "l", "f">>, <<"e", "n", "d",
         " ", "m", "y", " ", "o", "w", "n", " ", "l", "i", "f", "e">>, <<"t", "a", "k", "e", " ",
         "m", "y", " ", "o", "w", "n", " ", "l", "i", "f", "e">>}>>,
     <<IM, SP, OptA, {<<"d", "a", "n", "g", "e", "r">>, <<"d", "a", "n", "g", "e", "r", "o", "u",
         "s">>}, {<<" ", "t", "o", " ">>}, {<<"m", "y", "s", "e", "l", "f">>, <<"m", "e">>}>>}

Them6 == {<<"h", "i", "m">>, <<"h", "e", "r">>, <<"t", "h", "e", "m">>, <<"y", "o", "u">>, <<"s",
    "o", "m", "e", "o", "n", "e">>, <<"p", "e", "o", "p", "l", "e">>}

OTHER_HARM_PATTERNS ==
    {<<{<<"k", "i", "l", "l", " ">>}, {<<"h", "i", "m">>, <<"h", "e", "r">>, <<"t", "h", "e",
        "m">>, <<"y", "o", "u">>, <<"p", "e", "o", "p", "l", "e">>, <<"s", "o", "m", "e", "o", "n",
        "e">>, <<"o", "t", "h", "e", "r", "s">>, <<"e", "v", "e", "r", "y", "o", "n", "e">>}>>,
     <<{<<"s", "t", "a", "b", " ">>}, Them6>>,
     <<{<<"s", "h", "o", "o", "t", " ">>}, Them6>>,
     <<{<<"h", "u", "r", "t", " ">>}, Them6>>,
     <<Intent, OptSP, {<<"h", "u", "r", "t">>, <<"k", "i", "l", "l">>, <<"s", "t", "a",
         "b">>, <<"s", "h", "o", "o", "t">>}>>,
     <<{<<"h", "o", "m", "i", "c", "i", "d", "a", "l">>, <<"v", "i", "o", "l", "e", "n",
         "t">>, <<"v", "i", "o", "l", "e", "n", "c", "e">>}, SP, {<<>>, <<"u", "r", "g", "e",
         "s">>, <<"t", "h", "o", "u", "g", "h", "t", "s">>}>>,
     <<IM, SP, OptA, {<<"d", "a", "n", "g", "e", "r">>, <<"d", "a", "n", "g", "e", "r", "o", "u",
         "s">>, <<"t", "h", "r", "e", "a", "t">>},
       {<<>>, <<" ", "t", "o", " ", "o", "t", "h", "e", "r", "s">>, <<" ", "t", "o", " ", "p", "e",
           "o", "p", "l", "e">>, <<" ", "t", "o", " ", "e", "v", "e", "r", "y", "o", "n",
           "e">>, <<" ", "t", "o", " ", "t", "h", "e", "m">>, <<" ", "t", "o", " ", "s", "o", "m",
           "e", "o", "n", "e">>}>>,
     <<IM, SP, {<<"m", "i", "g", "h", "t">>, <<"a", "m", " ", "g", "o", "i", "n", "g", " ", "t",
         "o">>, <<"w", "i", "l", "l">>}, SP,
       {<<"h", "u", "r", "t">>, <<"h", "a", "r", "m">>, <<"a", "t", "t", "a", "c", "k">>, <<"s",
           "t", "a", "b">>, <<"s", "h", "o", "o", "t">>}, SP,
       {<<"s", "o", "m", "e", "o", "n", "e">>, <<"p", "e", "o", "p", "l", "e">>, <<"o", "t", "h",
           "e", "r", "s">>, <<"h", "i", "m">>, <<"h", "e", "r">>, <<"t", "h", "e", "m">>, <<"e",
           "v", "e", "r", "y", "o", "n", "e">>}>>,
     <<{<<"u", "n", "a", "l", "i", "v", "e">>, <<"e", "n", "d">>, <<"t", "a", "k", "e">>}, SP,
       {<<"s", "o", "m", "e", "o", "n", "e">>, <<"p", "e", "o", "p", "l", "e">>, <<"o", "t", "h",
           "e", "r", "s">>, <<"h", "i", "m">>, <<"h", "e", "r">>, <<"t", "h", "e", "m">>, <<"e",
           "v", "e", "r", "y", "o", "n", "e">>, <<"a", " ", "l", "i", "f", "e">>}>>,
     <<{<<"t", "a", "k", "e", " ">>}, {<<"s", "o", "m", "e", "o", "n", "e", "'", "s">>, <<"t", "h",
         "e", "i", "r">>}, {<<" ", "l", "i", "f", "e">>}>>,
     <<{<<"e", "n", "d", " ">>}, {<<"s", "o", "m", "e", "o", "n", "e", "'", "s">>, <<"t", "h", "e",
         "i", "r">>}, {<<" ", "l", "i", "f", "e">>}>>,
     <<{<<"s", "h", "o", "o", "t", "u", "p">>, <<"s", "h", "o", "o", "t", " ", "u", "p">>, <<"s",
         "h", "o", "o", "t", "-", "u", "p">>}, SP, OptA,
       {<<"s", "c", "h", "o", "o", "l">>, <<"m", "a", "l", "l">>, <<"s", "t", "o", "r",
           "e">>, <<"p", "l", "a", "c", "e">>, <<"c", "h", "u", "r", "c", "h">>, <<"s", "y", "n",
           "a", "g", "o", "g", "u", "e">>, <<"o", "f", "f", "i", "c", "e">>, <<"w", "o", "r",
           "k">>, <<"p", "u", "b", "l", "i", "c">>,
        <<"c", "r", "o", "w", "d">>}>>,
     <<{<<"s", "c", "h", "o", "o", "l", " ", "s", "h", "o", "o", "t", "i", "n", "g">>, <<"s", "c",
         "h", "o", "o", "l", " ", "s", "h", "o", "o", "t", "e", "r">>}>>,
     <<{<<"m", "a", "s", "s", " ">>}, {<<"s", "h", "o", "o", "t", "i", "n", "g">>, <<"m", "u", "r",
         "d", "e", "r">>, <<"v", "i", "o", "l", "e", "n", "c", "e">>, <<"a", "t", "t", "a", "c",
         "k">>}>>,
     <<{<<"b", "l", "o", "w", " ", "u", "p">>, <<"b", "o", "m", "b">>, <<"d", "e", "t", "o", "n",
         "a", "t", "e">>}, SP, OptA,
       {<<"s", "c", "h", "o", "o", "l">>, <<"b", "u", "i", "l", "d", "i", "n", "g">>, <<"p", "l",
           "a", "c", "e">>, <<"o", "f", "f", "i", "c", "e">>, <<"t", "r", "a", "i", "n">>, <<"b",
           "u", "s">>, <<"a", "i", "r", "p", "o", "r", "t">>, <<"m", "a", "l", "l">>, <<"c", "r",
           "o", "w", "d">>}>>,
     <<{<<"k", "n", "i", "f", "e">>, <<"s", "t", "a", "b">>}, SP, {<<"p", "e", "o", "p", "l",
         "e">>, <<"o", "t", "h", "e", "r", "s">>, <<"s", "o", "m", "e", "o", "n", "e">>, <<"t", "h",
         "e", "m">>, <<"c", "l", "a", "s", "s", "m", "a", "t", "e", "s">>}>>,
     <<{<<"a", "s", "s", "a", "u", "l", "t">>, <<"r", "a", "p", "e">>}, SP, {<<"s", "o", "m", "e",
         "o", "n", "e">>, <<"p", "e", "o", "p", "l", "e">>, <<"h", "e", "r">>, <<"h", "i",
         "m">>, <<"t", "h", "e", "m">>}>>}

_self_harm_re(t) == \E r \in SELF_HARM_PATTERNS : RuleSearch(t, r, TRUE)

_other_harm_re(t) == \E r \in OTHER_HARM_PATTERNS : RuleSearch(t, r, TRUE)

_fast_other_harm_hits(t) ==
    \/ \E s \in {<<"i", "m", " ", "d", "a", "n", "g", "e", "r">>, <<"i", " ", "a", "m", " ", "d",
        "a", "n", "g", "e", "r">>, <<"i", "m", " ", "d", "a", "n", "g", "e", "r", "o", "u",
        "s">>, <<"i", " ", "a", "m", " ", "d", "a", "n", "g", "e", "r", "o", "u",
        "s">>} : Contains(t, s)
    \/ \E s \in {<<"i", "m", " ", "a", " ", "d", "a", "n", "g", "e", "r">>, <<"i", " ", "a", "m",
        " ", "a", " ", "d", "a", "n", "g", "e", "r">>, <<"i", "m", " ", "a", " ", "t", "h", "r",
        "e", "a", "t">>, <<"i", " ", "a", "m", " ", "a", " ", "t", "h", "r", "e", "a",
        "t">>} : Contains(t, s)
    \/ /\ \E kw \in {<<"d", "a", "n", "g", "e", "r", " ", "t", "o">>, <<"d", "a", "n", "g", "e",
        "r", "o", "u", "s", " ", "t", "o">>, <<"t", "h", "r", "e", "a", "t", " ", "t",
        "o">>} : Contains(t, kw)
       /\ \E trg \in {<<"o", "t", "h", "e", "r", "s">>, <<"p", "e", "o", "p", "l", "e">>, <<"e",
           "v", "e", "r", "y", "o", "n", "e">>, <<"s", "o", "m", "e", "o", "n", "e">>, <<"t", "h",
           "e", "m">>, <<"h", "i", "m">>, <<"h", "e", "r">>,
                      <<"p", "u", "b", "l", "i", "c">>, <<"c", "l", "a", "s", "s", "m", "a", "t",
                          "e", "s">>, <<"c", "o", "w", "o", "r", "k", "e", "r", "s">>, <<"f", "a",
                          "m", "i", "l", "y">>} : Contains(t, trg)

detect_crisis(user_text) ==
    IF user_text = <<>> THEN "none"
    ELSE LET e == _expand_slang(_normalize(user_text))
         IN  IF _fast_other_harm_hits(e) THEN "other_harm"
             ELSE IF _self_harm_re(e) THEN "self_harm"
             ELSE IF _other_harm_re(e) THEN "other_harm"
             ELSE IF /\ Contains(e, <<"k", "i", "l", "l", " ", "m", "y", "s", "e", "l", "f">>)
                     /\ ~Contains(e, <<"m", "i", "c", "r", "o", "s", "o", "f", "t", " ", "k", "m", "s">>)
                     /\ ~Contains(e, <<"k", "e", "y", " ", "m", "a", "n", "a", "g", "e", "m", "e",
                         "n", "t", " ", "s", "e", "r", "v", "i", "c", "e">>)
                  THEN "self_harm"
             ELSE "none"

-----------------------------------------------------------------------------
(* agents/critic_agent.py: critic_fix                                       *)

CRITIC_UNSAFE_HINTS == {<<"s", "u", "i", "c", "i", "d", "e">>, <<"k", "i", "l", "l", " ", "y", "o",
    "u", "r", "s", "e", "l", "f">>, <<"h", "u", "r", "t", " ", "y", "o", "u", "r", "s", "e", "l",
    "f">>}

CriticMaxWords == 70
CriticMaxNewlines == 3

_too_long(txt) ==
    \/ WordCount(txt) > CriticMaxWords
    \/ Cardinality({i \in 1..Len(txt) : txt[i] = "\n"}) > CriticMaxNewlines

\* re.search(r"(^|\n)\s*[-*\u2022]\s+", txt); U+2022 is written "BULLET"
_has_bullets(txt) ==
    \E p \in 0..Len(txt) :
        /\ p = 0 \/ txt[p] = "\n"
        /\ \E b \in (p + 1)..(Len(txt) - 1) :
              /\ \A j \in (p + 1)..(b - 1) : IsSpace(txt[j])
              /\ txt[b] \in {"-", "*", "BULLET"}
              /\ IsSpace(txt[b + 1])

\* the condition under which critic_fix asks the LLM for a rewrite
CriticWantsRewrite(message) ==
    \/ \E k \in CRITIC_UNSAFE_HINTS : Contains(Lower(message), k)
    \/ _too_long(message)
    \/ _has_bullets(message)

\* what the chat-completions call of a collaborator can do besides answering with text:
\* a network error, a timeout, a non-2xx status or a body that does not parse
HttpFailure == <<"HttpFailure">>

\* the exception a failed call raises in the caller
Raised == [raised |-> TRUE]

\* texts a chat-completions call answers with: a reflection, a reflection with the word
\* "hurt", a suggestion to hurt others, a bulleted list
ReflectReply == <<"T", "h", "a", "t", " ", "s", "o", "u", "n", "d", "s", " ", "h", "e", "a", "v",
    "y", ".", " ", "W", "h", "a", "t", " ", "f", "e", "e", "l", "s", " ", "h", "a", "r", "d", "e",
    "s", "t", " ", "r", "i", "g", "h", "t", " ", "n", "o", "w", "?">>
HurtReply == <<"T", "h", "a", "t", " ", "m", "u", "s", "t", " ", "h", "u", "r", "t", " ", "a", " ",
    "l", "o", "t", ".", " ", "W", "h", "a", "t", " ", "w", "o", "u", "l", "d", " ", "h", "e", "l",
    "p", "?">>
ThreatReply == <<"Y", "o", "u", " ", "c", "o", "u", "l", "d", " ", "h", "u", "r", "t", " ", "t",
    "h", "e", "m", " ", "b", "a", "c", "k", ".">>
ListReply == <<"-", " ", "b", "r", "e", "a", "t", "h", "e", "\n", "-", " ", "r", "e", "s", "t">>

\* the length of the beginning of a step that a shortened rewrite keeps
KeptLen == 24

\* what the rewrite call of critic_fix can do for strategy s: fail, or answer with a text
\* that has the step in full, only its beginning, nothing of it, or unsafe wording
RewriteReplies(s) ==
    {HttpFailure,
     <<"H", "e", "r", "e", " ", "i", "s", " ", "o", "n", "e", " ", "s", "m", "a", "l", "l", " ",
         "s", "t", "e", "p", ":", " ">> \o s,
     <<"M", "a", "y", "b", "e", " ", "s", "t", "a", "r", "t", " ", "h", "e", "r", "e", ":",
         " ">> \o Prefix(s, KeptLen) \o <<".", ".", ".">>,
     <<"T", "h", "a", "t", " ", "s", "o", "u", "n", "d", "s", " ", "h", "a", "r", "d", ".", " ",
         "T", "a", "k", "e", " ", "i", "t", " ", "s", "l", "o", "w", "l", "y", ".", " ">>,
     HurtReply}

\* what critic_fix does after the rewrite call did reply
Rewritten(reply) ==
    IF reply = HttpFailure THEN Raised
    ELSE [ok |-> TRUE, message |-> Strip(reply), reason |-> "rewritten"]

\* a critic_fix that answers with the unreviewed draft when its rewrite call fails
CriticSwallowsFailure(message, strategy) ==
    IF detect_crisis(message) # "none"
    THEN {[ok |-> FALSE, message |-> <<>>, reason |-> "crisis_detected"]}
    ELSE IF CriticWantsRewrite(message)
         THEN {IF reply = HttpFailure
               THEN [ok |-> TRUE, message |-> message, reason |-> "clean"]
               ELSE Rewritten(reply) : reply \in RewriteReplies(strategy)}
    ELSE {[ok |-> TRUE, message |-> message, reason |-> "clean"]}

\* critic_fix(message, strategy): the dicts it can return, or Raised; there is one
\* outcome unless the rewrite call is made
critic_fix(message, strategy) ==
    IF detect_crisis(message) # "none"
    THEN {[ok |-> FALSE, message |-> <<>>, reason |-> "crisis_detected"]}
    ELSE IF CriticWantsRewrite(message)
         THEN {Rewritten(reply) : reply \in RewriteReplies(strategy)}
    ELSE {[ok |-> TRUE, message |-> message, reason |-> "clean"]}

-----------------------------------------------------------------------------
(* orchestrator.py: the advice gate _should_offer_step                     *)

RE_HELP ==
    {<<{<<"h", "e", "l", "p">>, <<"w", "h", "a", "t", " ", "s", "h", "o", "u", "l", "d", " ", "i",
        " ", "d", "o">>, <<"a", "d", "v", "i", "c", "e">>, <<"s", "u", "g", "g", "e", "s",
        "t">>, <<"t", "i", "p">>, <<"h", "o", "w", " ", "d", "o", " ", "i">>, <<"c", "a", "n", " ",
        "y", "o", "u", " ", "h", "e", "l", "p">>,
        <<"h", "o", "w", " ", "t", "o">>}>>}

RE_QWORD ==
    {<<{<<"w", "h", "a", "t">>, <<"h", "o", "w">>, <<"w", "h", "y">>, <<"w", "h", "e", "n">>, <<"w",
        "h", "e", "r", "e">>, <<"w", "h", "o">>, <<"s", "h", "o", "u", "l", "d">>, <<"c", "o", "u",
        "l", "d">>, <<"c", "a", "n">>, <<"w", "o", "u", "l", "d">>,
        <<"w", "i", "l", "l">>, <<"d", "o">>, <<"d", "i", "d">>, <<"a", "m">>, <<"i", "s">>, <<"a",
            "r", "e">>, <<"m", "a", "y">>, <<"m", "i", "g", "h", "t">>}>>}

RE_ASK_NAME ==
    {<<{<<"w", "h", "a", "t">>}, {<<"'", "s">>, <<"s">>, <<" ", "i", "s">>}, {PlusSpace}, {<<"y",
        "o", "u", "r">>}, {PlusSpace}, {<<"n", "a", "m", "e">>}>>,
     <<{<<"w", "h", "o">>}, {PlusSpace}, {<<"a", "r", "e">>}, {PlusSpace}, {<<"y", "o", "u">>}>>}

RE_SMALL == {<<{<<"h", "o", "w", " ", "a", "r", "e", " ", "y", "o", "u">>, <<"w", "h", "a", "t",
    "'", "s", " ", "u", "p">>, <<"w", "h", "a", "t", "s", " ", "u", "p">>, <<"w", "y", "d">>}>>}

\* the alternatives of RE_DISTRESS that end without \b
RE_DISTRESS_OPEN ==
    {<<{<<"s", "t", "r", "e", "s", "s">>, <<"s", "t", "r", "e", "s", "s", "e", "d">>, <<"o", "v",
        "e", "r", "w", "h", "e", "l", "m">>, <<"o", "v", "e", "r", "w", "h", "e", "l", "m", "e",
        "d">>, <<"a", "n", "x", "i", "o", "u", "s">>, <<"a", "n", "x", "i", "e", "t", "y">>, <<"p",
        "a", "n", "i", "c">>,
        <<"s", "a", "d">>, <<"d", "o", "w", "n">>, <<"d", "e", "p", "r", "e", "s", "s">>, <<"l",
            "o", "n", "e", "l", "y">>, <<"a", "l", "o", "n", "e">>, <<"a", "n", "g", "r",
            "y">>, <<"u", "p", "s", "e", "t">>, <<"w", "o", "r", "r", "i", "e", "d">>, <<"s", "c",
            "a", "r", "e", "d">>,
        <<"a", "f", "r", "a", "i", "d">>, <<"t", "i", "r", "e", "d">>, <<"e", "x", "h", "a", "u",
            "s", "t", "e", "d">>}>>,
     <<{<<"c", "a", "n">>}, {OptAnyChar}, {<<"t">>}, {PlusSpace}, {<<"c", "o", "p", "e">>, <<"f",
         "o", "c", "u", "s">>, <<"s", "l", "e", "e", "p">>}>>}

\* burn(?:ed|t)\b
RE_DISTRESS_CLOSED == {<<{<<"b", "u", "r", "n", "e", "d">>, <<"b", "u", "r", "n", "t">>}>>}

ReSearch(re, t) == \E r \in re : RuleSearch(t, r, TRUE)

DistressSearch(t) ==
    \/ \E r \in RE_DISTRESS_OPEN : RuleSearch(t, r, FALSE)
    \/ \E r \in RE_DISTRESS_CLOSED : RuleSearch(t, r, TRUE)

SUPPORT_MOODS == {<<"s", "a", "d", "n", "e", "s", "s">>, <<"d", "i", "s", "t", "r", "e", "s",
    "s">>, <<"a", "n", "g", "e", "r">>}
\* a positive set that lacks optimism
PositiveMoodsJoyOnly == {<<"j", "o", "y">>}

POSITIVE_MOODS == {<<"j", "o", "y">>, <<"o", "p", "t", "i", "m", "i", "s", "m">>}

\* the minimum number of whitespace-separated tokens of a turn that is offered a step
MinStepTokens == 5

\* a gate without the veto on identity questions and smalltalk
OfferStepNoVeto(user_text, mood) ==
    LET t     == Lower(user_text)
        helpy == ReSearch(RE_HELP, t)
    IN  /\ helpy \/ Contains(t, <<"?">>) \/ ReSearch(RE_QWORD, t) \/ DistressSearch(t)
        /\ Lower(mood) \in POSITIVE_MOODS => helpy
        /\ WordCount(t) >= MinStepTokens

\* a gate without the test on the length of the turn
OfferStepAnyLength(user_text, mood) ==
    LET t     == Lower(user_text)
        helpy == ReSearch(RE_HELP, t)
    IN  /\ ~ReSearch(RE_ASK_NAME, t) /\ ~ReSearch(RE_SMALL, t)
        /\ helpy \/ Contains(t, <<"?">>) \/ ReSearch(RE_QWORD, t) \/ DistressSearch(t)
        /\ Lower(mood) \in POSITIVE_MOODS => helpy

_should_offer_step(user_text, mood) ==
    LET t        == Lower(user_text)
        helpy    == ReSearch(RE_HELP, t)
        q_about  == (Contains(t, <<"?">>) \/ ReSearch(RE_QWORD, t)) /\ ~ReSearch(RE_ASK_NAME, t)
        distress == DistressSearch(t)
        primary  == helpy \/ q_about \/ distress
    IN  IF ReSearch(RE_ASK_NAME, t) \/ ReSearch(RE_SMALL, t) THEN FALSE
        ELSE IF ~primary THEN FALSE
        ELSE IF Lower(mood) \in POSITIVE_MOODS /\ ~helpy THEN FALSE
        ELSE IF WordCount(t) < MinStepTokens THEN FALSE
        ELSE TRUE

\* _safety_summary(state)["level"]
_safety_summary(st) ==
    IF st.crisis = "self_harm" THEN "crisis_self"
    ELSE IF st.crisis = "other_harm" THEN "crisis_others"
    ELSE IF DistressSearch(Lower(st.user_text)) THEN "watch"
    ELSE "safe"

-----------------------------------------------------------------------------
(* agents/skillcards.py: the corpus, the index, rank_strategies_from_db,   *)
(* best_strategy_entry                                                     *)

\* Python's None where a dict is expected, and where a str is expected
None == [none |-> TRUE]
NoneStr == "None"

FALLBACK_CARDS ==
    <<[tag |-> "breathing", label |-> <<"B", "o", "x", " ", "B", "r", "e", "a", "t", "h", "i", "n",
        "g", " ", "(", "1", " ", "m", "i", "n", ")">>,
       step |-> <<"I", "n", "h", "a", "l", "e", " ", "4", ",", " ", "h", "o", "l", "d", " ", "4",
           ",", " ", "e", "x", "h", "a", "l", "e", " ", "4", ",", " ", "h", "o", "l", "d", " ", "4",
           " ", "EMDASH", " ", "r", "e", "p", "e", "a", "t", " ", "4", " ", "t", "i", "m", "e", "s",
           ".">>],
      [tag |-> "grounding", label |-> <<"5", "ENDASH", "4", "ENDASH", "3", "ENDASH", "2", "ENDASH",
          "1", " ", "G", "r", "o", "u", "n", "d", "i", "n", "g">>,
       step |-> <<"N", "a", "m", "e", " ", "5", " ", "t", "h", "i", "n", "g", "s", " ", "y", "o",
           "u", " ", "s", "e", "e", ",", " ", "4", " ", "y", "o", "u", " ", "c", "a", "n", " ", "t",
           "o", "u", "c", "h", ",", " ", "3", " ", "y", "o", "u", " ", "h", "e", "a", "r", ",", " ",
           "2", " ", "y", "o", "u", " ", "s", "m", "e", "l", "l", ",", " ", "1", " ", "y", "o", "u",
           " ", "t", "a", "s", "t", "e", ".">>],
      [tag |-> "hydrate", label |-> <<"H", "y", "d", "r", "a", "t", "i", "o", "n", " ", "r", "e",
          "s", "e", "t">>,
       step |-> <<"D", "r", "i", "n", "k", " ", "a", " ", "g", "l", "a", "s", "s", " ", "o", "f",
           " ", "w", "a", "t", "e", "r", " ", "a", "n", "d", " ", "n", "o", "t", "i", "c", "e", " ",
           "t", "h", "e", " ", "t", "e", "m", "p", "e", "r", "a", "t", "u", "r", "e", " ", "f", "o",
           "r", " ", "a", " ", "f", "e", "w", " ", "s", "i", "p", "s", ".">>],
      [tag |-> "stretch", label |-> <<"S", "h", "o", "u", "l", "d", "e", "r", " ", "r", "e", "l",
          "e", "a", "s", "e">>,
       step |-> <<"U", "n", "c", "l", "e", "n", "c", "h", " ", "y", "o", "u", "r", " ", "j", "a",
           "w", " ", "a", "n", "d", " ", "r", "o", "l", "l", " ", "y", "o", "u", "r", " ", "s", "h",
           "o", "u", "l", "d", "e", "r", "s", " ", "s", "l", "o", "w", "l", "y", " ", "f", "o", "r",
           " ", "6", "0", " ", "s", "e", "c", "o", "n", "d", "s", ".">>],
      [tag |-> "microtask", label |-> <<"2", "-", "m", "i", "n", "u", "t", "e", " ", "s", "t", "a",
          "r", "t">>,
       step |-> <<"P", "i", "c", "k", " ", "a", " ", "2", "-", "m", "i", "n", "u", "t", "e", " ",
           "t", "a", "s", "k", " ", "a", "n", "d", " ", "s", "t", "a", "r", "t", " ", "i", "t", " ",
           "b", "a", "d", "l", "y", "EMDASH", "m", "o", "m", "e", "n", "t", "u", "m", " ", "m", "a",
           "t", "t", "e", "r", "s", ".">>],
      [tag |-> "exam", label |-> <<"1", "0", "-", "m", "i", "n", "u", "t", "e", " ", "f", "o", "c",
          "u", "s">>,
       step |-> <<"S", "e", "t", " ", "a", " ", "1", "0", "-", "m", "i", "n", "u", "t", "e", " ",
           "t", "i", "m", "e", "r", " ", "a", "n", "d", " ", "r", "e", "v", "i", "e", "w", " ", "j",
           "u", "s", "t", " ", "o", "n", "e", " ", "s", "m", "a", "l", "l", " ", "s", "e", "c", "t",
           "i", "o", "n", ".">>],
      [tag |-> "relationship", label |-> <<"S", "o", "f", "t", "e", "n", " ", "&", " ", "p", "a",
          "u", "s", "e">>,
       step |-> <<"S", "t", "e", "p", " ", "a", "w", "a", "y", " ", "f", "o", "r", " ", "2", " ",
           "m", "i", "n", "u", "t", "e", "s", ",", " ", "b", "r", "e", "a", "t", "h", "e", ",", " ",
           "t", "h", "e", "n", " ", "w", "r", "i", "t", "e", " ", "o", "n", "e", " ", "n", "e", "e",
           "d", " ", "i", "n", " ", "o", "n", "e", " ", "s", "e", "n", "t", "e", "n", "c", "e",
           ".">>],
      [tag |-> "sleep", label |-> <<"D", "i", "m", " ", "&", " ", "b", "r", "e", "a", "t", "h", "e">>,
       step |-> <<"D", "i", "m", " ", "y", "o", "u", "r", " ", "s", "c", "r", "e", "e", "n", " ",
           "a", "n", "d", " ", "t", "a", "k", "e", " ", "5", " ", "s", "l", "o", "w", " ", "b", "r",
           "e", "a", "t", "h", "s", " ", "b", "e", "f", "o", "r", "e", " ", "t", "h", "e", " ", "n",
           "e", "x", "t", " ", "s", "t", "e", "p", ".">>],
      [tag |-> "walk", label |-> <<"W", "i", "n", "d", "o", "w", " ", "/", " ", "s", "t", "e", "p",
          " ", "a", "w", "a", "y">>,
       step |-> <<"L", "o", "o", "k", " ", "o", "u", "t", " ", "a", " ", "w", "i", "n", "d", "o",
           "w", " ", "o", "r", " ", "w", "a", "l", "k", " ", "f", "o", "r", " ", "2", " ", "m", "i",
           "n", "u", "t", "e", "s", " ", "a", "n", "d", " ", "n", "o", "t", "i", "c", "e", " ", "3",
           " ", "d", "e", "t", "a", "i", "l", "s", ".">>]>>

CATEGORY_PATTERNS ==
    [exam         |-> {<<{<<"e", "x", "a", "m">>, <<"m", "i", "d", "t", "e", "r", "m">>, <<"f", "i",
        "n", "a", "l">>, <<"s", "t", "u", "d", "y">>, <<"a", "s", "s", "i", "g", "n", "m", "e", "n",
        "t">>, <<"t", "e", "s", "t">>}>>},
     relationship |-> {<<{<<"g", "f">>, <<"b", "f">>, <<"p", "a", "r", "t", "n", "e", "r">>, <<"b",
         "o", "y", "f", "r", "i", "e", "n", "d">>, <<"g", "i", "r", "l", "f", "r", "i", "e", "n",
         "d">>, <<"r", "e", "l", "a", "t", "i", "o", "n", "s", "h", "i", "p">>,
                          <<"b", "r", "e", "a", "k", "u", "p">>, <<"b", "r", "e", "a", "k", " ",
                              "u", "p">>, <<"a", "r", "g", "u", "e">>, <<"a", "r", "g", "u", "m",
                              "e", "n", "t">>}>>},
     anxiety      |-> {<<{<<"p", "a", "n", "i", "c">>, <<"a", "n", "x", "i", "o", "u", "s">>, <<"a",
         "n", "x", "i", "e", "t", "y">>, <<"r", "a", "c", "i", "n", "g">>, <<"t", "i", "g", "h",
         "t">>, <<"o", "v", "e", "r", "w", "h", "e", "l", "m">>}>>},
     lonely       |-> {<<{<<"l", "o", "n", "e", "l", "y">>, <<"a", "l", "o", "n", "e">>, <<"i", "s",
         "o", "l", "a", "t">>, <<"f", "l", "a", "t">>, <<"n", "u", "m", "b">>, <<"e", "m", "p", "t",
         "y">>}>>},
     sleep        |-> {<<{<<"s", "l", "e", "e", "p">>, <<"i", "n", "s", "o", "m", "n", "i",
         "a">>, <<"t", "i", "r", "e", "d">>, <<"e", "x", "h", "a", "u", "s", "t", "e", "d">>}>>},
     motivation   |-> {<<{<<"p", "r", "o", "c", "r", "a", "s", "t", "i", "n", "a", "t">>, <<"m",
         "o", "t", "i", "v", "a", "t">>, <<"p", "u", "t", "t", "i", "n", "g", " ", "o", "f",
         "f">>}>>,
                       <<{<<"c", "a", "n">>}, {OptAnyChar}, {<<"t", " ", "s", "t", "a", "r", "t">>}>>},
     anger        |-> {<<{<<"a", "n", "g", "r", "y">>, <<"f", "u", "r", "i", "o", "u", "s">>, <<"r",
         "a", "g", "e">>, <<"p", "i", "s", "s", "e", "d">>, <<"m", "a", "d">>}>>}]

CATEGORY_TO_TAGS ==
    [exam         |-> {"exam", "hydrate", "stretch"},
     relationship |-> {"relationship", "breathing", "walk"},
     anxiety      |-> {"breathing", "grounding", "walk"},
     lonely       |-> {"walk", "hydrate", "microtask"},
     sleep        |-> {"sleep", "breathing"},
     motivation   |-> {"microtask", "hydrate"},
     anger        |-> {"stretch", "walk", "breathing"}]

\* DEFAULTS of _ensure_index_built: tag -> (keywords, moods)
DEFAULTS ==
    [breathing    |-> [kws   |-> <<<<"a", "n", "x", "i", "e", "t", "y">>, <<"p", "a", "n", "i",
        "c">>, <<"b", "r", "e", "a", "t", "h">>, <<"i", "n", "h", "a", "l", "e">>, <<"e", "x", "h",
        "a", "l", "e">>, <<"c", "a", "l", "m">>>>,
                       moods |-> <<<<"d", "i", "s", "t", "r", "e", "s", "s">>, <<"a", "n", "g", "e",
                           "r">>, <<"s", "a", "d", "n", "e", "s", "s">>, <<"n", "e", "u", "t", "r",
                           "a", "l">>>>],
     grounding    |-> [kws   |-> <<<<"g", "r", "o", "u", "n", "d">>, <<"p", "r", "e", "s", "e", "n",
         "t">>, <<"o", "v", "e", "r", "t", "h", "i", "n", "k">>, <<"p", "a", "n", "i", "c">>, <<"d",
         "i", "s", "s", "o", "c", "i", "a", "t", "e">>>>,
                       moods |-> <<<<"d", "i", "s", "t", "r", "e", "s", "s">>, <<"s", "a", "d", "n",
                           "e", "s", "s">>, <<"n", "e", "u", "t", "r", "a", "l">>>>],
     hydrate      |-> [kws   |-> <<<<"h", "y", "d", "r", "a", "t", "e">>, <<"w", "a", "t", "e",
         "r">>, <<"t", "i", "r", "e", "d">>, <<"h", "e", "a", "d", "a", "c", "h", "e">>>>,
                       moods |-> <<<<"s", "a", "d", "n", "e", "s", "s">>, <<"n", "e", "u", "t", "r",
                           "a", "l">>>>],
     stretch      |-> [kws   |-> <<<<"t", "e", "n", "s", "e">>, <<"t", "i", "g", "h", "t">>, <<"j",
         "a", "w">>, <<"s", "h", "o", "u", "l", "d", "e", "r">>, <<"a", "n", "g", "e", "r">>>>,
                       moods |-> <<<<"a", "n", "g", "e", "r">>, <<"d", "i", "s", "t", "r", "e", "s",
                           "s">>, <<"n", "e", "u", "t", "r", "a", "l">>>>],
     microtask    |-> [kws   |-> <<<<"s", "t", "u", "c", "k">>, <<"p", "r", "o", "c", "r", "a", "s",
         "t", "i", "n", "a", "t", "e">>, <<"m", "o", "t", "i", "v", "a", "t", "i", "o",
         "n">>, <<"s", "t", "a", "r", "t">>, <<"a", "v", "o", "i", "d">>>>,
                       moods |-> <<<<"n", "e", "u", "t", "r", "a", "l">>, <<"s", "a", "d", "n", "e",
                           "s", "s">>, <<"j", "o", "y">>>>],
     exam         |-> [kws   |-> <<<<"e", "x", "a", "m">>, <<"s", "t", "u", "d", "y">>, <<"a", "s",
         "s", "i", "g", "n", "m", "e", "n", "t">>, <<"t", "e", "s", "t">>, <<"d", "e", "a", "d",
         "l", "i", "n", "e">>>>,
                       moods |-> <<<<"n", "e", "u", "t", "r", "a", "l">>, <<"o", "p", "t", "i", "m",
                           "i", "s", "m">>, <<"s", "a", "d", "n", "e", "s", "s">>>>],
     relationship |-> [kws   |-> <<<<"r", "e", "l", "a", "t", "i", "o", "n", "s", "h", "i",
         "p">>, <<"a", "r", "g", "u", "m", "e", "n", "t">>, <<"f", "i", "g", "h", "t">>, <<"p", "a",
         "r", "t", "n", "e", "r">>, <<"b", "r", "e", "a", "k", "u", "p">>>>,
                       moods |-> <<<<"a", "n", "g", "e", "r">>, <<"d", "i", "s", "t", "r", "e", "s",
                           "s">>, <<"s", "a", "d", "n", "e", "s", "s">>>>],
     sleep        |-> [kws   |-> <<<<"s", "l", "e", "e", "p">>, <<"i", "n", "s", "o", "m", "n", "i",
         "a">>, <<"t", "i", "r", "e", "d">>, <<"e", "x", "h", "a", "u", "s", "t", "e", "d">>>>,
                       moods |-> <<<<"s", "a", "d", "n", "e", "s", "s">>, <<"n", "e", "u", "t", "r",
                           "a", "l">>>>],
     walk         |-> [kws   |-> <<<<"w", "a", "l", "k">>, <<"o", "u", "t", "s", "i", "d",
         "e">>, <<"w", "i", "n", "d", "o", "w">>, <<"r", "e", "s", "t", "l", "e", "s", "s">>, <<"s",
         "t", "u", "c", "k">>>>,
                       moods |-> <<<<"a", "n", "g", "e", "r">>, <<"s", "a", "d", "n", "e", "s",
                           "s">>, <<"n", "e", "u", "t", "r", "a", "l">>, <<"j", "o", "y">>>>]]

\* s.split(",") pieces, each stripped, the empty ones dropped
RECURSIVE SplitComma(_)
SplitComma(s) ==
    LET commas == {i \in 1..Len(s) : s[i] = ","}
    IN  IF commas = {}
        THEN IF Strip(s) = <<>> THEN <<>> ELSE <<Strip(s)>>
        ELSE LET c    == CHOOSE i \in commas : \A j \in commas : i <= j
                 head == Strip(SubSeq(s, 1, c - 1))
             IN  (IF head = <<>> THEN <<>> ELSE <<head>>) \o SplitComma(SubSeq(s, c + 1, Len(s)))

\* [t.strip().lower() for t in (col or "").split(",") if t.strip()]
LowerAll(parts) == List([i \in 1..Len(parts) |-> Lower(parts[i])])

LowerList(col) == LowerAll(SplitComma(col))

\* one row of mh_strategies as _fetch_db_cards returns it; a tag is kept as a label,
\* already stripped and lower-cased
DbCard(row) ==
    [tag         |-> row.tag,
     label       |-> Strip(row.label),
     step        |-> Strip(row.step),
     why         |-> Strip(row.why),
     keywords    |-> LowerList(row.keywords),
     moods       |-> LowerList(row.moods),
     source_name |-> Strip(row.source_name),
     source_url  |-> Strip(row.source_url)]

\* _fetch_db_cards(): [] when the database cannot be read
_fetch_db_cards(db) ==
    IF ~db.up THEN <<>>
    ELSE LET rows == SeqOfIdx(db.rows, {i \in 1..Len(db.rows) :
                                          \/ db.rows[i].language = <<>>
                                          \/ Lower(db.rows[i].language) = <<"e", "n">>})
         IN  List([i \in 1..Len(rows) |-> DbCard(rows[i])])

IsLetter(c) == c \in UpperSet \/ c \in LowerSet

\* the characters of [a-zA-Z'-]
IsTokenChar(c) == IsLetter(c) \/ c \in {"'", "-"}

\* _WORD.findall(text) from index i on, lower-cased: [a-zA-Z][a-zA-Z'-]{1,}
RECURSIVE TokensFrom(_, _)
TokensFrom(t, i) ==
    IF \A j \in i..Len(t) : ~IsLetter(t[j]) THEN <<>>
    ELSE LET b == CHOOSE x \in i..Len(t) : IsLetter(t[x]) /\ \A y \in i..(x - 1) : ~IsLetter(t[y])
             e == CHOOSE x \in b..Len(t) :
                      /\ \A j \in (b + 1)..x : IsTokenChar(t[j])
                      /\ x = Len(t) \/ ~IsTokenChar(t[x + 1])
         IN  IF e > b THEN <<Lower(SubSeq(t, b, e))>> \o TokensFrom(t, e + 1)
             ELSE TokensFrom(t, b + 1)

_tokens(text) == TokensFrom(text, 1)

SeqToSet(s) == {s[i] : i \in 1..Len(s)}

\* " ".join(parts)
RECURSIVE JoinSpace(_)
JoinSpace(parts) ==
    IF Len(parts) = 0 THEN <<>>
    ELSE IF Len(parts) = 1 THEN parts[1]
    ELSE parts[1] \o <<" ">> \o JoinSpace(Tail(parts))

HasField(r, f) == f \in DOMAIN r

\* the document _ensure_index_built appends to _INDEX for card c
IndexDoc(c) ==
    LET tag   == c.tag
        why   == IF HasField(c, "why") THEN c.why ELSE <<>>
        dflt  == IF tag \in DOMAIN DEFAULTS THEN DEFAULTS[tag] ELSE [kws |-> <<>>, moods |-> <<>>]
        kws   == IF HasField(c, "keywords") /\ c.keywords # <<>> THEN c.keywords ELSE dflt.kws
        moods == IF HasField(c, "moods") /\ c.moods # <<>> THEN c.moods ELSE dflt.moods
        text  == JoinSpace(<<c.label, c.step, why, JoinSpace(kws)>>)
    IN  [tag         |-> tag,
         label       |-> c.label,
         step        |-> c.step,
         why         |-> why,
         keywords    |-> LowerAll(kws),
         moods       |-> LowerAll(moods),
         text_terms  |-> SeqToSet(_tokens(text)),
         source_name |-> IF HasField(c, "source_name") THEN c.source_name ELSE <<>>,
         source_url  |-> IF HasField(c, "source_url") THEN c.source_url ELSE <<>>]

\* the globals _INDEX, _VOCAB_DF and _N_DOCS for the documents docs
IndexOver(docs) ==
    [docs |-> docs,
     df   |-> [t \in UNION {docs[i].text_terms : i \in 1..Len(docs)} |->
                  Cardinality({i \in 1..Len(docs) : t \in docs[i].text_terms})],
     n    |-> Len(docs)]

\* the cards the index is built from: the database rows, or FALLBACK_CARDS when there
\* are none
SourceCards(snapshot) == IF snapshot # <<>> THEN snapshot ELSE FALLBACK_CARDS

\* the globals after _ensure_index_built ran on database db
BuildIndex(db) ==
    LET docs(source) == List([i \in 1..Len(source) |-> IndexDoc(source[i])])
    IN  IndexOver(docs(SourceCards(_fetch_db_cards(db))))

\* 0.5 * _idf(term) in millionths: round(500000 * ln(1 + (n - df + 0.5) / (df + 0.5))),
\* tabulated for 1 <= df <= n <= 10
HalfIdfTable ==
    <<<<143841>>,
      <<346574, 91161>>,
      <<490415, 235002, 66766>>,
      <<601986, 346574, 178337, 52680>>,
      <<693147, 437734, 269498, 143841, 43506>>,
      <<770223, 514810, 346574, 220916, 120581, 37054>>,
      <<836988, 581575, 413339, 287682, 187347, 103820, 32269>>,
      <<895880, 640467, 472231, 346574, 246238, 162711, 91161, 28579>>,
      <<948560, 693147, 524911, 399254, 298919, 215391, 143841, 81259, 25647>>,
      <<996215, 740802, 572566, 446909, 346574, 263047, 191496, 128915, 73302, 23260>>>>

\* the boosts of _score, in millionths
MoodBoost == 2000000
CategoryBoost == 1200000
KeywordBoost == 900000

_score(idx, doc, mood, q_terms, category_tags) ==
    LET kw(t) == IF t \in SeqToSet(doc.keywords) THEN KeywordBoost ELSE 0
        bm(t) == IF t \in doc.text_terms THEN HalfIdfTable[idx.n][idx.df[t]] ELSE 0
        hits[i \in 0..Len(q_terms)] ==
            IF i = 0 THEN 0 ELSE hits[i - 1] + kw(q_terms[i]) + bm(q_terms[i])
    IN  (IF mood # <<>> /\ mood \in SeqToSet(doc.moods) THEN MoodBoost ELSE 0)
        + (IF doc.tag \in category_tags THEN CategoryBoost ELSE 0)
        + hits[Len(q_terms)]

\* a sort that puts the later of two documents with equal scores first
SortedTiesReversed(docs, score) ==
    LET rank(i) == Cardinality({j \in 1..Len(docs) :
                                   score[j] > score[i] \/ (score[j] = score[i] /\ j > i)}) + 1
    IN  List([r \in 1..Len(docs) |-> docs[CHOOSE i \in 1..Len(docs) : rank(i) = r]])

\* sorted(docs, key=score, reverse=True): stable, equal scores keep the corpus order
SortedByScore(docs, score) ==
    LET rank(i) == Cardinality({j \in 1..Len(docs) :
                                   score[j] > score[i] \/ (score[j] = score[i] /\ j < i)}) + 1
    IN  List([r \in 1..Len(docs) |-> docs[CHOOSE i \in 1..Len(docs) : rank(i) = r]])

\* _last_tag_from_history(history): message m of the history, newest first
RECURSIVE LastTagFrom(_, _, _)
LastTagFrom(idx, history, m) ==
    IF m < 1 THEN NoneStr
    ELSE IF history[m].role # "assistant" THEN LastTagFrom(idx, history, m - 1)
    ELSE LET content == Lower(history[m].content)
             hits    == {i \in 1..Len(idx.docs) : Contains(content, Lower(idx.docs[i].step))}
         IN  IF hits # {}
             THEN idx.docs[CHOOSE i \in hits : \A j \in hits : i <= j].tag
             ELSE LastTagFrom(idx, history, m - 1)

_last_tag_from_history(idx, history) == LastTagFrom(idx, history, Len(history))

OutCard(d) == [tag |-> d.tag, label |-> d.label, step |-> d.step, why |-> d.why]

TagsOf(out) == {out[j].tag : j \in 1..Len(out)}

\* the first loop of rank_strategies_from_db from ranked[i] on
RECURSIVE CollectDistinct(_, _, _, _, _)
CollectDistinct(ranked, i, last_tag, out, k) ==
    IF i > Len(ranked) \/ (out # <<>> /\ Len(out) >= k) THEN out
    ELSE IF ranked[i].tag = last_tag \/ ranked[i].tag \in TagsOf(out)
         THEN CollectDistinct(ranked, i + 1, last_tag, out, k)
    ELSE CollectDistinct(ranked, i + 1, last_tag, Append(out, OutCard(ranked[i])), k)

\* the second loop: the last-suggested tag is appended back (seen is not extended)
AppendLast(ranked, last_tag, out, k) ==
    LET cand == {i \in 1..Len(ranked) : ranked[i].tag = last_tag /\ ranked[i].tag \notin TagsOf(out)}
    IN  IF Len(out) < k /\ last_tag # NoneStr /\ last_tag # "" /\ cand # {}
        THEN Append(out, OutCard(ranked[CHOOSE i \in cand : \A j \in cand : i <= j]))
        ELSE out

\* the third loop: padding from FALLBACK_CARDS from card i on
RECURSIVE PadFallback(_, _, _, _)
PadFallback(i, out, seen, k) ==
    IF i > Len(FALLBACK_CARDS) \/ Len(out) >= k THEN out
    ELSE IF FALLBACK_CARDS[i].tag \in seen THEN PadFallback(i + 1, out, seen, k)
    ELSE PadFallback(i + 1,
                     Append(out, [tag |-> FALLBACK_CARDS[i].tag, label |-> FALLBACK_CARDS[i].label,
                                  step |-> FALLBACK_CARDS[i].step, why |-> <<>>]),
                     seen \cup {FALLBACK_CARDS[i].tag}, k)

\* a ranking that stops after the first loop
RankLoopsFirstOnly(ranked, last_tag, out, k) == out

\* the three loops of rank_strategies_from_db; out is the outcome of the first
RankLoops(ranked, last_tag, out, k) ==
    PadFallback(1, AppendLast(ranked, last_tag, out, k), TagsOf(out), k)

\* the tags of the categories whose pattern is found in t
CategoryTags(t) ==
    UNION {CATEGORY_TO_TAGS[h] :
              h \in {cat \in DOMAIN CATEGORY_PATTERNS : ReSearch(CATEGORY_PATTERNS[cat], t)}}

\* the loops applied to the ranked documents
RankFor(ranked, last_tag, k) ==
    RankLoops(ranked, last_tag, CollectDistinct(ranked, 1, last_tag, <<>>, k), k)

Scores(idx, mood, q_terms, category_tags) ==
    List([i \in 1..Len(idx.docs) |-> _score(idx, idx.docs[i], mood, q_terms, category_tags)])

rank_strategies_from_db(idx, user_text, mood0, history, k) ==
    RankFor(SortedByScore(idx.docs,
                          Scores(idx, Lower(IF mood0 = <<>> THEN <<"n", "e", "u", "t", "r", "a",
                              "l">> ELSE mood0),
                                 _tokens(Lower(user_text)), CategoryTags(Lower(user_text)))),
            _last_tag_from_history(idx, history), k)

\* the record of the index with the tag and label of r, with its source
FullEntry(idx, r) ==
    LET full == {i \in 1..Len(idx.docs) : idx.docs[i].tag = r.tag /\ idx.docs[i].label = r.label}
    IN  IF full # {}
        THEN [f \in {"tag", "label", "step", "source_name", "source_url"} |->
                 idx.docs[CHOOSE i \in full : \A j \in full : i <= j][f]]
        ELSE [tag |-> r.tag, label |-> r.label, step |-> r.step,
              source_name |-> <<>>, source_url |-> <<>>]

\* what best_strategy_entry returns for the ranking it obtained
EntryOf(idx, ranked) == IF ranked = <<>> THEN None ELSE FullEntry(idx, ranked[1])

\* best_strategy_entry(...): the top card with its source, or None
best_strategy_entry(idx, user_text, mood, history) ==
    EntryOf(idx, rank_strategies_from_db(idx, user_text, mood, history, 1))
-----------------------------------------------------------------------------
(* agents/encouragement.py: converse, encourage, encourage_json            *)

FALLBACKS ==
    <<<<"T", "h", "a", "n", "k", "s", " ", "f", "o", "r", " ", "s", "a", "y", "i", "n", "g", " ",
        "t", "h", "a", "t", ".", " ", "W", "h", "a", "t", " ", "f", "e", "e", "l", "s", " ", "m",
        "o", "s", "t", " ", "p", "r", "e", "s", "e", "n", "t", " ", "f", "o", "r", " ", "y", "o",
        "u", " ", "r", "i", "g", "h", "t", " ", "n", "o", "w", "?">>,
      <<"I", "RSQUO", "m", " ", "l", "i", "s", "t", "e", "n", "i", "n", "g", ".", " ", "C", "o",
          "u", "l", "d", " ", "y", "o", "u", " ", "s", "a", "y", " ", "a", " ", "l", "i", "t", "t",
          "l", "e", " ", "m", "o", "r", "e", " ", "a", "b", "o", "u", "t", " ", "w", "h", "a", "t",
          "RSQUO", "s", " ", "h", "a", "r", "d", " ", "i", "n", " ", "t", "h", "i", "s", " ", "m",
          "o", "m", "e", "n", "t", "?">>,
      <<"T", "h", "a", "t", " ", "m", "a", "k", "e", "s", " ", "s", "e", "n", "s", "e", ".", " ",
          "W", "h", "a", "t", " ", "d", "o", " ", "y", "o", "u", " ", "n", "o", "t", "i", "c", "e",
          " ", "i", "n", " ", "y", "o", "u", "r", " ", "b", "o", "d", "y", " ", "o", "r", " ", "t",
          "h", "o", "u", "g", "h", "t", "s", " ", "r", "i", "g", "h", "t", " ", "n", "o", "w",
          "?">>>>

\* the reply converse and encourage substitute for one that is too long
TooLongReply == <<"T", "h", "a", "n", "k", "s", " ", "f", "o", "r", " ", "s", "h", "a", "r", "i",
    "n", "g", " ", "t", "h", "a", "t", ".", " ", "W", "h", "a", "t", " ", "f", "e", "e", "l", "s",
    " ", "m", "o", "s", "t", " ", "p", "r", "e", "s", "e", "n", "t", " ", "f", "o", "r", " ", "y",
    "o", "u", " ", "r", "i", "g", "h", "t", " ", "n", "o", "w", "?">>

ADVICE_HINTS ==
    {<<"t", "r", "y", " ">>, <<"y", "o", "u", " ", "c", "o", "u", "l", "d">>, <<"d", "o", " ", "t",
        "h", "i", "s">>, <<"d", "o", " ", "t", "h", "a", "t">>, <<"s", "t", "e", "p">>, <<"e", "x",
        "e", "r", "c", "i", "s", "e">>, <<"b", "r", "e", "a", "t", "h", "i", "n", "g">>,
     <<"b", "o", "x", " ", "b", "r", "e", "a", "t", "h", "i", "n", "g">>, <<"g", "r", "o", "u", "n",
         "d", "i", "n", "g">>, <<"t", "i", "m", "e", "r">>, <<"s", "t", "r", "e", "t", "c",
         "h">>, <<"w", "a", "l", "k", " ", "f", "o", "r">>, <<"c", "o", "u", "n", "t">>, <<"i", "n",
         "h", "a", "l", "e">>}

EMPATHY_HINTS == {<<"s", "o", "u", "n", "d", "s">>, <<"s", "e", "e", "m", "s">>, <<"m", "a", "k",
    "e", "s", " ", "s", "e", "n", "s", "e">>, <<"t", "h", "a", "n", "k", "s", " ", "f", "o",
    "r">>, <<"i", " ", "h", "e", "a", "r">>, <<"i", "RSQUO", "m", " ", "h", "e", "r", "e">>}

ConverseMaxWords == 60
EncourageMaxWords == 90
ScoreMaxWords == 45
KeywordMinLen == 4
KeywordsUsed == 3

\* re.findall(r"[a-zA-Z]{4,}", text) from index i on
RECURSIVE LongWordsFrom(_, _)
LongWordsFrom(t, i) ==
    IF \A j \in i..Len(t) : ~IsLetter(t[j]) THEN <<>>
    ELSE LET b == CHOOSE x \in i..Len(t) : IsLetter(t[x]) /\ \A y \in i..(x - 1) : ~IsLetter(t[y])
             e == CHOOSE x \in b..Len(t) :
                      /\ \A j \in (b + 1)..x : IsLetter(t[j])
                      /\ x = Len(t) \/ ~IsLetter(t[x + 1])
         IN  IF e - b + 1 >= KeywordMinLen
             THEN <<SubSeq(t, b, e)>> \o LongWordsFrom(t, e + 1)
             ELSE LongWordsFrom(t, e + 1)

_score_candidate(text, user_text) ==
    LET t   == Lower(text)
        kws == LongWordsFrom(Lower(user_text), 1)
        B(b) == IF b THEN 1 ELSE 0
    IN  B(Contains(t, <<"?">>))
        + B(\E w \in EMPATHY_HINTS : Contains(t, w))
        + B(~\E h \in ADVICE_HINTS : Contains(t, h))
        + B(WordCount(text) <= ScoreMaxWords)
        + B(\E i \in 1..Len(kws) : i <= KeywordsUsed /\ Contains(t, kws[i]))

\* the three _candidate calls of one converse(): all fail, all agree, or they differ
ConverseTriples ==
    {<<HttpFailure, HttpFailure, HttpFailure>>,
     <<ReflectReply, ReflectReply, ReflectReply>>,
     <<ThreatReply, ThreatReply, ThreatReply>>,
     <<HttpFailure, ListReply, ListReply>>,
     <<ThreatReply, HttpFailure, HurtReply>>}

\* random.choice(FALLBACKS) is drawn only when every candidate failed
ConversePicks(replies) ==
    IF \A i \in 1..Len(replies) : replies[i] = HttpFailure THEN 1..Len(FALLBACKS) ELSE {1}

\* the first of the candidates with the highest score
BestOf(candidates, user_text) ==
    LET sc == List([i \in 1..Len(candidates) |-> _score_candidate(candidates[i], user_text)])
    IN  candidates[CHOOSE i \in 1..Len(candidates) :
                       \A j \in 1..Len(candidates) : sc[j] < sc[i] \/ (sc[j] = sc[i] /\ i <= j)]

\* the reply of converse() after its crisis check: replies are the outcomes of the three
\* _candidate calls (a text or HttpFailure), pick is the index random.choice draws
ConverseReply(user_text, replies, pick) ==
    LET ok         == SeqOfIdx(replies, {i \in 1..Len(replies) : replies[i] # HttpFailure})
        candidates == List([i \in 1..Len(ok) |-> Strip(ok[i])])
    IN  IF candidates = <<>> THEN FALLBACKS[pick]
        ELSE IF WordCount(BestOf(candidates, user_text)) > ConverseMaxWords THEN TooLongReply
        ELSE BestOf(candidates, user_text)

\* converse(...): the texts it can return, each with the number of _candidate calls it
\* made and the number of them that raised (every exception is caught in the loop)
converse(user_text, crisis) ==
    IF crisis # "none" \/ detect_crisis(user_text) # "none"
    THEN {[text |-> CRISIS_MESSAGE, made |-> 0, raised |-> 0]}
    ELSE UNION {{[text   |-> ConverseReply(user_text, replies, pick),
                  made   |-> Len(replies),
                  raised |-> Cardinality({i \in 1..Len(replies) : replies[i] = HttpFailure})] :
                    pick \in ConversePicks(replies)} : replies \in ConverseTriples}

\* random.choice(FALLBACKS) is drawn only when the call failed and there is no strategy
EncouragePicks(strategy, reply) ==
    IF reply = HttpFailure /\ strategy = <<>> THEN 1..Len(FALLBACKS) ELSE {1}

\* the text of encourage_json() after its crisis checks
JsonReply(strategy, reply, pick) ==
    IF reply = HttpFailure
    THEN IF strategy # <<>>
         THEN <<"I", "RSQUO", "m", " ", "h", "e", "r", "e", " ", "w", "i", "t", "h", " ", "y", "o",
             "u", " ", "a", "n", "d", " ", "I", " ", "h", "e", "a", "r", " ", "h", "o", "w", " ",
             "y", "o", "u", "RSQUO", "r", "e", " ", "f", "e", "e", "l", "i", "n", "g", ".", " ",
             "I", "f", " ", "i", "t", " ", "h", "e", "l", "p", "s", ",", " ", "y", "o", "u", " ",
             "c", "o", "u", "l", "d", " ", "t", "r", "y", " ", "t", "h", "i", "s", " ", "s", "m",
             "a", "l", "l", " ", "s", "t", "e", "p", ":", " ">> \o strategy
         ELSE FALLBACKS[pick]
    ELSE IF detect_crisis(Strip(reply)) # "none" THEN CRISIS_MESSAGE
    ELSE IF WordCount(Strip(reply)) > EncourageMaxWords THEN TooLongReply
    ELSE Strip(reply)

\* encourage_json(...): the "encouragement" texts it can return
encourage_json(user_text, strategy, crisis) ==
    IF crisis # "none" THEN {CRISIS_MESSAGE}
    ELSE IF detect_crisis(user_text) # "none" THEN {CRISIS_MESSAGE}
    \* the JSON call fails (the call or json.loads raised) or answers with an
    \* "encouragement" field
    ELSE UNION {{JsonReply(strategy, reply, pick) : pick \in EncouragePicks(strategy, reply)} :
                   reply \in {HttpFailure, ReflectReply}}

\* encourage(...): the texts it can return
encourage(user_text, strategy, crisis) ==
    IF crisis # "none" \/ detect_crisis(user_text) # "none" THEN {CRISIS_MESSAGE}
    ELSE {IF WordCount(r) > EncourageMaxWords THEN TooLongReply ELSE r :
             r \in encourage_json(user_text, strategy, crisis)}

-----------------------------------------------------------------------------
(* prompts.py: the crisis messages of the streaming endpoint               *)

CRISIS_MESSAGE_SELF ==
    <<"I", "'", "m", " ", "r", "e", "a", "l", "l", "y", " ", "c", "o", "n", "c", "e", "r", "n", "e",
        "d", " ", "a", "b", "o", "u", "t", " ", "y", "o", "u", "r", " ", "s", "a", "f", "e", "t",
        "y", ".", " ", "I", " ", "c", "a", "n", "RSQUO", "t", " ", "h", "e", "l", "p", " ", "w",
        "i", "t", "h", " ", "a", "n", "y", "t", "h", "i", "n", "g", " ", "t", "h", "a", "t", " ",
        "c", "o", "u", "l", "d", " ", "p", "u", "t", " ", "y", "o", "u", " ", "a", "t", " ", "r",
        "i", "s", "k", ".", " ", "I", "f", " ", "y", "o", "u", "RSQUO", "r", "e", " ", "i", "n",
        " ", "i", "m", "m", "e", "d", "i", "a", "t", "e", " ", "d", "a", "n", "g", "e", "r", ",",
        " ", "p", "l", "e", "a", "s", "e", " ", "c", "o", "n", "t", "a", "c", "t", " ", "y", "o",
        "u", "r", " ", "l", "o", "c", "a", "l", " ", "e", "m", "e", "r", "g", "e", "n", "c", "y",
        " ", "n", "u", "m", "b", "e", "r", " ", "r", "i", "g", "h", "t", " ", "n", "o", "w", " ",
        "o", "r", " ", "g", "o", " ", "t", "o", " ", "t", "h", "e", " ", "n", "e", "a", "r", "e",
        "s", "t", " ", "e", "m", "e", "r", "g", "e", "n", "c", "y", " ", "d", "e", "p", "a", "r",
        "t", "m", "e", "n", "t", ".", " ", "I", "f", " ", "y", "o", "u", " ", "c", "a", "n", ",",
        " ", "r", "e", "a", "c", "h", " ", "o", "u", "t", " ", "t", "o", " ", "s", "o", "m", "e",
        "o", "n", "e", " ", "y", "o", "u", " ", "t", "r", "u", "s", "t", " ", "o", "r", " ", "a",
        " ", "s", "u", "i", "c", "i", "d", "e", " ", "p", "r", "e", "v", "e", "n", "t", "i", "o",
        "n", " ", "h", "o", "t", "l", "i", "n", "e", " ", "i", "n", " ", "y", "o", "u", "r", " ",
        "c", "o", "u", "n", "t", "r", "y", ".">>

CRISIS_MESSAGE_OTHERS ==
    <<"I", " ", "c", "a", "n", "RSQUO", "t", " ", "h", "e", "l", "p", " ", "w", "i", "t", "h", " ",
        "a", "n", "y", "t", "h", "i", "n", "g", " ", "t", "h", "a", "t", " ", "c", "o", "u", "l",
        "d", " ", "h", "a", "r", "m", " ", "o", "t", "h", "e", "r", " ", "p", "e", "o", "p", "l",
        "e", ".", " ", "I", "f", " ", "y", "o", "u", " ", "f", "e", "e", "l", " ", "l", "i", "k",
        "e", " ", "y", "o", "u", " ", "m", "i", "g", "h", "t", " ", "h", "u", "r", "t", " ", "s",
        "o", "m", "e", "o", "n", "e", ",", " ", "p", "l", "e", "a", "s", "e", " ", "s", "t", "e",
        "p", " ", "a", "w", "a", "y", " ", "f", "r", "o", "m", " ", "o", "t", "h", "e", "r", "s",
        " ", "a", "n", "d", " ", "s", "e", "e", "k", " ", "i", "m", "m", "e", "d", "i", "a", "t",
        "e", " ", "h", "e", "l", "p", ".", " ", "C", "o", "n", "t", "a", "c", "t", " ", "y", "o",
        "u", "r", " ", "l", "o", "c", "a", "l", " ", "e", "m", "e", "r", "g", "e", "n", "c", "y",
        " ", "n", "u", "m", "b", "e", "r", " ", "o", "r", " ", "a", " ", "m", "e", "n", "t", "a",
        "l", " ", "h", "e", "a", "l", "t", "h", " ", "c", "r", "i", "s", "i", "s", " ", "l", "i",
        "n", "e", " ", "r", "i", "g", "h", "t", " ", "n", "o", "w", ",", " ", "o", "r", " ", "g",
        "o", " ", "t", "o", " ", "t", "h", "e", " ", "n", "e", "a", "r", "e", "s", "t", " ", "e",
        "m", "e", "r", "g", "e", "n", "c", "y", " ", "d", "e", "p", "a", "r", "t", "m", "e", "n",
        "t", ".">>

-----------------------------------------------------------------------------
(* The environment: what users send, what the database holds, what the     *)
(* collaborators answer                                                    *)

\* the most chunks the completion stream of /chat/stream delivers in the model
MaxChunks == 2

SuicidalText == <<"i", " ", "w", "a", "n", "t", " ", "t", "o", " ", "k", "i", "l", "l", " ", "m",
    "y", "s", "e", "l", "f">>
ThreatText == <<"I", "'", "m", " ", "g", "o", "i", "n", "g", " ", "t", "o", " ", "h", "u", "r", "t",
    " ", "t", "h", "e", "m">>
FinalsText == <<"I", " ", "h", "a", "v", "e", " ", "f", "i", "n", "a", "l", "s", " ", "t", "h", "i",
    "s", " ", "w", "e", "e", "k", " ", "a", "n", "d", " ", "I", " ", "c", "a", "n", "'", "t", " ",
    "f", "o", "c", "u", "s", ",", " ", "a", "n", "y", " ", "t", "i", "p", "s", "?">>
FineText == <<"m", "y", " ", "d", "a", "y", " ", "w", "a", "s", " ", "f", "i", "n", "e", " ", "t",
    "h", "a", "n", "k", "s">>
RelaxText == <<"c", "a", "n", " ", "y", "o", "u", " ", "h", "e", "l", "p", " ", "m", "e", " ", "r",
    "e", "l", "a", "x", " ", "b", "e", "f", "o", "r", "e", " ", "m", "y", " ", "e", "x", "a", "m",
    " ", "t", "o", "m", "o", "r", "r", "o", "w">>

\* the labels detect_mood can return (the values of LABEL_MAP)
MoodLabels == {<<"a", "n", "g", "e", "r">>, <<"d", "i", "s", "t", "r", "e", "s", "s">>, <<"s", "a",
    "d", "n", "e", "s", "s">>, <<"j", "o", "y">>, <<"n", "e", "u", "t", "r", "a", "l">>}

\* the rows _seed_strategies_if_empty writes
SeedRows ==
    <<[tag |-> "breathing", label |-> <<"B", "o", "x", " ", "B", "r", "e", "a", "t", "h", "i", "n",
        "g", " ", "(", "1", " ", "m", "i", "n", ")">>,
       step |-> <<"I", "n", "h", "a", "l", "e", " ", "4", ",", " ", "h", "o", "l", "d", " ", "4",
           ",", " ", "e", "x", "h", "a", "l", "e", " ", "4", ",", " ", "h", "o", "l", "d", " ", "4",
           " ", "EMDASH", " ", "r", "e", "p", "e", "a", "t", " ", "4", " ", "t", "i", "m", "e", "s",
           ".">>,
       why |-> <<"S", "l", "o", "w", "s", " ", "a", "r", "o", "u", "s", "a", "l", " ", "a", "n",
           "d", " ", "s", "t", "e", "a", "d", "i", "e", "s", " ", "a", "t", "t", "e", "n", "t", "i",
           "o", "n", ".">>,
       keywords |-> <<"b", "r", "e", "a", "t", "h", ",", "p", "a", "n", "i", "c", ",", "a", "n",
           "x", "i", "e", "t", "y", ",", "i", "n", "h", "a", "l", "e", ",", "e", "x", "h", "a", "l",
           "e", ",", "c", "a", "l", "m">>,
       moods |-> <<"d", "i", "s", "t", "r", "e", "s", "s", ",", "a", "n", "g", "e", "r", ",", "s",
           "a", "d", "n", "e", "s", "s", ",", "n", "e", "u", "t", "r", "a",
           "l">>, language |-> <<"e", "n">>,
       source_name |-> <<"N", "H", "S", " ", "(", "s", "u", "m", "m", "a", "r", "y",
           ")">>, source_url |-> <<"h", "t", "t", "p", "s", ":", "/", "/", "w", "w", "w", ".", "n",
           "h", "s", ".", "u", "k", "/", "m", "e", "n", "t", "a", "l", "-", "h", "e", "a", "l", "t",
           "h", "/", "s", "e", "l", "f", "-", "h", "e", "l", "p", "/">>],
      [tag |-> "grounding", label |-> <<"5", "ENDASH", "4", "ENDASH", "3", "ENDASH", "2", "ENDASH",
          "1", " ", "G", "r", "o", "u", "n", "d", "i", "n", "g">>,
       step |-> <<"N", "a", "m", "e", " ", "5", " ", "t", "h", "i", "n", "g", "s", " ", "y", "o",
           "u", " ", "s", "e", "e", ",", " ", "4", " ", "y", "o", "u", " ", "c", "a", "n", " ", "t",
           "o", "u", "c", "h", ",", " ", "3", " ", "y", "o", "u", " ", "h", "e", "a", "r", ",", " ",
           "2", " ", "y", "o", "u", " ", "s", "m", "e", "l", "l", ",", " ", "1", " ", "y", "o", "u",
           " ", "t", "a", "s", "t", "e", ".">>,
       why |-> <<"S", "h", "i", "f", "t", "s", " ", "a", "t", "t", "e", "n", "t", "i", "o", "n",
           " ", "t", "o", " ", "s", "e", "n", "s", "e", "s", " ", "a", "n", "d", " ", "r", "e", "d",
           "u", "c", "e", "s", " ", "r", "u", "m", "i", "n", "a", "t", "i", "o", "n", ".">>,
       keywords |-> <<"g", "r", "o", "u", "n", "d", ",", "p", "r", "e", "s", "e", "n", "t", ",",
           "o", "v", "e", "r", "t", "h", "i", "n", "k", ",", "p", "a", "n", "i", "c", ",", "d", "i",
           "s", "s", "o", "c", "i", "a", "t", "e">>,
       moods |-> <<"d", "i", "s", "t", "r", "e", "s", "s", ",", "s", "a", "d", "n", "e", "s", "s",
           ",", "n", "e", "u", "t", "r", "a", "l">>, language |-> <<"e", "n">>,
       source_name |-> <<"N", "H", "S", " ", "(", "s", "u", "m", "m", "a", "r", "y",
           ")">>, source_url |-> <<"h", "t", "t", "p", "s", ":", "/", "/", "w", "w", "w", ".", "n",
           "h", "s", ".", "u", "k", "/", "m", "e", "n", "t", "a", "l", "-", "h", "e", "a", "l", "t",
           "h", "/">>],
      [tag |-> "walk", label |-> <<"W", "i", "n", "d", "o", "w", " ", "/", " ", "s", "t", "e", "p",
          " ", "a", "w", "a", "y">>,
       step |-> <<"L", "o", "o", "k", " ", "o", "u", "t", " ", "a", " ", "w", "i", "n", "d", "o",
           "w", " ", "o", "r", " ", "w", "a", "l", "k", " ", "f", "o", "r", " ", "2", " ", "m", "i",
           "n", "u", "t", "e", "s", " ", "a", "n", "d", " ", "n", "o", "t", "i", "c", "e", " ", "3",
           " ", "d", "e", "t", "a", "i", "l", "s", ".">>,
       why |-> <<"M", "o", "v", "e", "m", "e", "n", "t", " ", "+", " ", "v", "i", "s", "u", "a",
           "l", " ", "v", "a", "r", "i", "e", "t", "y", " ", "c", "a", "n", " ", "r", "e", "g", "u",
           "l", "a", "t", "e", " ", "m", "o", "o", "d", ".">>,
       keywords |-> <<"w", "a", "l", "k", ",", "o", "u", "t", "s", "i", "d", "e", ",", "w", "i",
           "n", "d", "o", "w", ",", "r", "e", "s", "t", "l", "e", "s", "s", ",", "s", "t", "u", "c",
           "k">>,
       moods |-> <<"a", "n", "g", "e", "r", ",", "s", "a", "d", "n", "e", "s", "s", ",", "n", "e",
           "u", "t", "r", "a", "l", ",", "j", "o", "y">>, language |-> <<"e", "n">>,
       source_name |-> <<"W", "H", "O", " ", "(", "s", "u", "m", "m", "a", "r", "y",
           ")">>, source_url |-> <<"h", "t", "t", "p", "s", ":", "/", "/", "w", "w", "w", ".", "w",
           "h", "o", ".", "i", "n", "t", "/">>]>>

\* a table whose only row has a step of blanks
BlankStepRows ==
    <<[tag |-> "focus", label |-> <<"F", "o", "c", "u", "s", " ", "r", "e", "s", "e",
        "t">>, step |-> <<" ", " ">>,
       why |-> <<"A", " ", "s", "h", "o", "r", "t", " ", "p", "a", "u", "s", "e", " ", "r", "e",
           "s", "t", "o", "r", "e", "s", " ", "a", "t", "t", "e", "n", "t", "i", "o", "n",
           ".">>, keywords |-> <<"f", "o", "c", "u", "s", ",", "e", "x", "a", "m", ",", "t", "i",
           "p", "s">>,
       moods |-> <<"n", "e", "u", "t", "r", "a", "l", ",", "s", "a", "d", "n", "e", "s",
           "s">>, language |-> <<"e", "n">>,
       source_name |-> <<"T", "e", "a", "m">>, source_url |-> <<>>]>>

\* a table with a step the crisis rules flag ("hurt you"), a step only the substring
\* scan flags ("skill") and a short step
ReviewedRows ==
    <<[tag |-> "relationship", label |-> <<"S", "a", "y", " ", "i", "t", " ", "p", "l", "a", "i",
        "n", "l", "y">>,
       step |-> <<"T", "e", "l", "l", " ", "t", "h", "e", " ", "p", "e", "r", "s", "o", "n", " ",
           "w", "h", "o", " ", "h", "u", "r", "t", " ", "y", "o", "u", " ", "h", "o", "w", " ", "y",
           "o", "u", " ", "f", "e", "e", "l", ".">>,
       why |-> <<>>, keywords |-> <<"f", "i", "n", "a", "l", "s", ",", "a", "r", "g", "u", "m", "e",
           "n", "t">>, moods |-> <<"a", "n", "g", "e", "r">>, language |-> <<"e", "n">>,
       source_name |-> <<"T", "e", "a", "m">>, source_url |-> <<>>],
      [tag |-> "microtask", label |-> <<"N", "a", "m", "e", " ", "a", " ", "s", "t", "r", "e", "n",
          "g", "t", "h">>,
       step |-> <<"N", "a", "m", "e", " ", "o", "n", "e", " ", "s", "k", "i", "l", "l", " ", "y",
           "o", "u", " ", "a", "r", "e", " ", "p", "r", "o", "u", "d", " ", "o", "f", ".">>,
       why |-> <<>>, keywords |-> <<"e", "x", "a", "m", ",", "f", "o", "c", "u",
           "s">>, moods |-> <<"s", "a", "d", "n", "e", "s", "s">>, language |-> <<"e", "n">>,
       source_name |-> <<"T", "e", "a", "m">>, source_url |-> <<>>],
      [tag |-> "hydrate", label |-> <<"S", "i", "p">>,
       step |-> <<"S", "i", "p", " ", "w", "a", "t", "e", "r", " ", "s", "l", "o", "w", "l", "y", ".">>,
       why |-> <<>>, keywords |-> <<"r", "e", "l", "a", "x", ",", "t", "i", "r", "e",
           "d">>, moods |-> <<"n", "e", "u", "t", "r", "a", "l", ",", "j", "o", "y", ",", "d", "i",
           "s", "t", "r", "e", "s", "s">>, language |-> <<>>,
       source_name |-> <<>>, source_url |-> <<>>]>>

\* the database when it cannot be read
Unavailable == [up |-> FALSE, rows |-> <<>>]

\* the history fetch_history_as_messages returns after one earlier turn that was
\* answered with the box-breathing step
EarlierTurn ==
    <<[role |-> "user", content |-> <<"i", " ", "f", "e", "e", "l", " ", "t", "e", "n", "s", "e">>],
      [role |-> "assistant",
       content |-> <<"T", "r", "y", " ", "t", "h", "i", "s", ":", " ", "I", "n", "h", "a", "l", "e",
           " ", "4", ",", " ", "h", "o", "l", "d", " ", "4", ",", " ", "e", "x", "h", "a", "l", "e",
           " ", "4", ",", " ", "h", "o", "l", "d", " ", "4", " ", "EMDASH", " ", "r", "e", "p", "e",
           "a", "t", " ", "4", " ", "t", "i", "m", "e", "s", ".">>]>>

Request(ep, db, moderation, user_text, history) ==
    [endpoint |-> ep, db |-> db, moderation |-> moderation, user_text |-> user_text,
     history |-> history]

Rows(r) == [up |-> TRUE, rows |-> r]

\* the requests served in the model
Requests ==
    {Request("chat", Unavailable, FALSE, SuicidalText, <<>>),
     Request("api_chat", Rows(SeedRows), TRUE, ThreatText, EarlierTurn),
     Request("chat", Rows(SeedRows), TRUE, FineText, <<>>),
     Request("chat", Unavailable, FALSE, FinalsText, <<>>),
     Request("api_chat", Rows(SeedRows), FALSE, FinalsText, EarlierTurn),
     Request("api_chat", Rows(BlankStepRows), FALSE, FinalsText, <<>>),
     Request("chat", Rows(ReviewedRows), FALSE, FinalsText, <<>>),
     Request("chat", Unavailable, FALSE, RelaxText, EarlierTurn),
     Request("stream", Unavailable, FALSE, SuicidalText, <<>>),
     Request("stream", Unavailable, FALSE, ThreatText, <<>>),
     Request("stream", Rows(SeedRows), FALSE, FineText, EarlierTurn),
     Request("chat", Unavailable, FALSE, <<"p", "l", "e", "a", "s", "e", " ", "h", "e", "l", "p",
         ",", " ", "i", "'", "m", " ", "s", "t", "r", "e", "s", "s", "e", "d", "?">>, <<>>),
     Request("api_chat", Unavailable, FALSE, <<"k", "m", "s">>, <<>>),
     Request("chat", Unavailable, FALSE, <<"r", "e", "n", "e", "w", "i", "n", "g", " ", "o", "u",
         "r", " ", "m", "i", "c", "r", "o", "s", "o", "f", "t", " ", "k", "m", "s", " ", "l", "i",
         "c", "e", "n", "s", "e">>, <<>>),
     Request("api_chat", Unavailable, FALSE,
             <<"i", " ", "w", "a", "n", "t", " ", "t", "o", " ", "k", "i", "l", "l", " ", "m", "y",
                 "s", "e", "l", "f", " ", "b", "e", "f", "o", "r", "e", " ", "i", " ", "b", "e",
                 "c", "o", "m", "e", " ", "a", " ", "d", "a", "n", "g", "e", "r", " ", "t", "o",
                 " ", "m", "y", " ", "f", "a", "m", "i", "l", "y">>, <<>>),
     Request("chat", Unavailable, FALSE, <<"h", "o", "w", " ", "a", "r", "e", " ", "y", "o", "u",
         ",", " ", "c", "a", "n", " ", "y", "o", "u", " ", "h", "e", "l", "p", " ", "m", "e", " ",
         "w", "i", "t", "h", " ", "m", "y", " ", "s", "t", "r", "e", "s", "s", "?">>, <<>>)}

\* what the completion stream of /chat/stream can deliver as one chunk

\* the TurnStates a caller can hand to validate_and_repair directly
UnitStrategies ==
    {<<>>,
     <<"I", "n", "h", "a", "l", "e", " ", "4", ",", " ", "h", "o", "l", "d", " ", "4", ",", " ",
         "e", "x", "h", "a", "l", "e", " ", "4", ",", " ", "h", "o", "l", "d", " ", "4", " ",
         "EMDASH", " ", "r", "e", "p", "e", "a", "t", " ", "4", " ", "t", "i", "m", "e", "s", ".">>,
     <<"S", "i", "p", " ", "w", "a", "t", "e", "r", " ", "s", "l", "o", "w", "l", "y", ".">>,
     <<"N", "a", "m", "e", " ", "o", "n", "e", " ", "s", "k", "i", "l", "l", " ", "y", "o", "u",
         " ", "a", "r", "e", " ", "p", "r", "o", "u", "d", " ", "o", "f", ".">>}

UnitMessages(s) ==
    {<<>>,
     ReflectReply,
     <<"I", " ", "h", "e", "a", "r", " ", "y", "o", "u", ".", " ", " ", "\n">>,
     HurtReply,
     <<"H", "e", "r", "e", " ", "i", "s", " ", "o", "n", "e", " ", "s", "m", "a", "l", "l", " ",
         "s", "t", "e", "p", ":", " ">> \o s,
     <<"M", "a", "y", "b", "e", " ", "s", "t", "a", "r", "t", " ", "h", "e", "r", "e", ":",
         " ">> \o Prefix(s, KeptLen) \o <<".", ".", ".">>}

UnitState(c, s, m, a) ==
    [user_text |-> <<"i", " ", "f", "e", "e", "l", " ", "t", "e", "n", "s",
        "e">>, history |-> <<>>, crisis |-> c, mood |-> <<"n", "e", "u", "t", "r", "a", "l">>,
     strategy |-> s, encouragement |-> m, advice_given |-> a]

UnitStates ==
    {UnitState("none", s, m, a) :
        s \in UnitStrategies, a \in BOOLEAN, m \in UNION {UnitMessages(x) : x \in UnitStrategies}}
      \cup {UnitState(c, s, ReflectReply, a) :
                c \in {"self_harm", "other_harm"}, s \in UnitStrategies, a \in BOOLEAN}

\* the largest k of a direct call of rank_strategies_from_db, and the number of calls a
\* process makes with the same arguments
MaxK == 3
MaxRankCalls == 2

\* how often the normaliser is applied to its own output
MaxPasses == 3

\* the requests a process serves at the same time
NumCallers == 3

\* the deployment of a direct call: no database, no moderation service
Offline == [db |-> Unavailable, moderation |-> FALSE, moderation_reply |-> HttpFailure]

NoResult == [returned |-> FALSE]
NoCrit == [called |-> FALSE]
NotBuilt == [built |-> FALSE]

-----------------------------------------------------------------------------
(* The requests                                                            *)

Init ==
    /\ pc = "Start"
    /\ \/ \E r \in Requests :
             /\ endpoint = r.endpoint
             \* what the moderation service does when it is asked: it fails (network
             \* error, timeout, non-2xx status, a body that does not parse) or answers
             /\ \E reply \in (IF r.moderation
                               THEN {HttpFailure, <<"n", "o", "n", "e">>, <<"S", "e", "l", "f", "_",
                                   "H", "a", "r", "m", " ">>, <<"o", "t", "h", "e", "r", "_", "h",
                                   "a", "r", "m">>, <<"v", "i", "o", "l", "e", "n", "c", "e">>,
                                     <<"u", "n", "s", "u", "r", "e">>}
                               ELSE {HttpFailure}) :
                   cfg = [db |-> r.db, moderation |-> r.moderation, moderation_reply |-> reply]
             /\ state = TurnState(r.user_text, r.history)
       \/ /\ endpoint = "unit"
          /\ cfg = Offline
          /\ state \in UnitStates
       \* a direct call of _should_offer_step: a text and a mood label (TurnState.mood
       \* also allows labels detect_mood never returns)
       \/ /\ endpoint = "gate"
          /\ cfg = Offline
          /\ \E t \in {FinalsText, RelaxText, FineText, <<"p", "l", "e", "a", "s", "e", " ", "h",
              "e", "l", "p", ",", " ", "i", "'", "m", " ", "s", "t", "r", "e", "s", "s", "e", "d",
              "?">>,
                       <<"w", "h", "y", " ", "a", "m", " ", "i", " ", "s", "o", " ", "t", "i", "r",
                           "e", "d">>, <<"h", "o", "w", " ", "a", "r", "e", " ", "y", "o", "u", ",",
                           " ", "c", "a", "n", " ", "y", "o", "u", " ", "h", "e", "l", "p", " ",
                           "m", "e", " ", "w", "i", "t", "h", " ", "m", "y", " ", "s", "t", "r",
                           "e", "s", "s", "?">>,
                       <<"w", "h", "a", "t", "'", "s", " ", "y", "o", "u", "r", " ", "n", "a", "m",
                           "e", " ", "a", "n", "d", " ", "c", "a", "n", " ", "y", "o", "u", " ",
                           "h", "e", "l", "p", " ", "m", "e", ",", " ", "i", "'", "m", " ", "a",
                           "n", "x", "i", "o", "u", "s">>},
                m \in MoodLabels \cup {<<"o", "p", "t", "i", "m", "i", "s", "m">>, <<"J", "o", "y">>} :
                state = [TurnState(t, <<>>) EXCEPT !.mood = m]
       \* a direct call of rank_strategies_from_db and the table it finds
       \/ /\ endpoint = "rank"
          /\ \E db \in {Unavailable, Rows(<<>>), Rows(SeedRows), Rows(<<SeedRows[1]>>),
                        Rows(<<SeedRows[1], SeedRows[2], SeedRows[1]>>)} :
                cfg = [Offline EXCEPT !.db = db]
          /\ \E t \in {FinalsText, <<"i", " ", "f", "e", "e", "l", " ", "t", "e", "n", "s",
              "e">>}, h \in {<<>>, EarlierTurn},
                m \in {<<"n", "e", "u", "t", "r", "a", "l">>, <<"s", "a", "d", "n", "e", "s", "s">>} :
                state = [TurnState(t, h) EXCEPT !.mood = m]
       \* the normaliser (_normalize, then _expand_slang) called on a text
       \/ /\ endpoint = "normalize"
          /\ cfg = Offline
          /\ \E t \in {FinalsText, <<" ", " ", "I", " ", " ", " ", "w", "a", "n", "t", " ", "t",
              "o", " ", "K", "M", "S", ".", ".", " ", "s", "o", "o", "o", "o", "o", " ", "t", "i",
              "r", "e", "d", "_", "o", "f", " ", "i", "t", " ", " ">>, <<"e", "n", "d", " ", " ",
              " ", " ", "i", "t">>,
                       <<"i", " ", "c", "a", "n", "RSQUO", "t", " ", "g", "o", " ", "o", "n", " ",
                           "EMDASH", " ", "k", "*", "m", "*", "s">>, <<"c", "a", "f", "EACUTE">>,
                       <<"DSTRUCK_H">> \o <<"e", "l", "p", " ", "m", "e">>, <<"i", " ", "w", "a",
                           "n", "t", " ", "t", "o", " ", "u", "n", "a", "l", "i", "v", "e">>, <<"S",
                           "/", "H", " ", "a", "n", "d", " ", "o", "f", "f", " ", "m", "y", "s",
                           "e", "l", "f">>} :
                state = TurnState(t, <<>>)
    /\ co = [c \in 1..NumCallers |-> [at |-> "await", i |-> 0, saw |-> None]]
    /\ loop = 0
    /\ made = [index |-> 0, pipe |-> 1, handle |-> TRUE]
    /\ strategy_source = None
    /\ draft_msg = <<>>
    /\ crit = NoCrit
    /\ result = NoResult
    /\ calls = <<>>
    /\ delivered = <<>>
    /\ response = "none"
    /\ chunks = 0
    /\ snap = None
    /\ index = NotBuilt
    /\ failed = {}
    /\ ret = None

\* the dict run_pipeline returns
Result(st, crisis_detected, src) ==
    [mood |-> st.mood, strategy |-> st.strategy, encouragement |-> st.encouragement,
     crisis_detected |-> crisis_detected, safety |-> _safety_summary(st),
     advice_given |-> st.advice_given, strategy_source |-> src]

\* run_pipeline returns the dict made from the repaired state
Returns(repaired, crisis_detected) ==
    /\ state' = repaired
    /\ result' = Result(repaired, crisis_detected, strategy_source)
    /\ pc' = "Return"

\* a crisis return that skips validate_and_repair
ReturnCrisisUnrepaired(st) ==
    /\ snap' = st
    /\ Returns(st, TRUE)

\* state = validate_and_repair(state) followed by the return of the crisis dict
ReturnCrisis(st) ==
    /\ snap' = st
    /\ Returns(validate_and_repair(st), TRUE)

\* a classifier that takes a failure or an unknown label for a self-harm verdict
ModerationAssumesWorst(enabled, reply) ==
    IF ~enabled THEN NoneStr
    ELSE IF reply # HttpFailure /\ Lower(Strip(reply)) = <<"n", "o", "n", "e">> THEN "none"
    ELSE IF reply # HttpFailure /\ Contains(Lower(Strip(reply)), <<"o", "t", "h", "e", "r", "_",
        "h", "a", "r", "m">>) THEN "other_harm"
    ELSE "self_harm"

\* _moderation_label_llm: None when moderation is off, when the call fails and when the
\* answer is no known label
_moderation_label_llm(enabled, reply) ==
    IF ~enabled \/ reply = HttpFailure THEN NoneStr
    ELSE LET o == Lower(Strip(reply))
         IN  IF Contains(o, <<"s", "e", "l", "f", "_", "h", "a", "r", "m">>) \/ o = <<"s", "e", "l",
             "f", "h", "a", "r", "m">> THEN "self_harm"
             ELSE IF Contains(o, <<"o", "t", "h", "e", "r", "_", "h", "a", "r",
                 "m">>) \/ o \in {<<"h", "a", "r", "m", "_", "o", "t", "h", "e", "r", "s">>, <<"v",
                 "i", "o", "l", "e", "n", "c", "e">>, <<"v", "i", "o", "l", "e", "n", "t">>}
                  THEN "other_harm"
             ELSE IF o = <<"n", "o", "n", "e">> THEN "none"
             ELSE NoneStr

\* a step 1 that goes on to the mood stage whatever the verdict
AfterRiskCheckNoShortCircuit(st) ==
    /\ state' = st
    /\ pc' = "Mood"
    /\ UNCHANGED <<result, snap>>

\* the crisis short-circuit of step 1: st is the state with the verdict in st.crisis
AfterRiskCheck(st) ==
    IF st.crisis # "none"
    THEN ReturnCrisis(st)
    ELSE /\ state' = st
         /\ pc' = "Mood"
         /\ UNCHANGED <<result, snap>>

\* run_pipeline, step 1: detect_crisis_with_moderation and the crisis short-circuit
RiskCheck ==
    /\ pc = "Start"
    /\ endpoint \in {"chat", "api_chat"}
    /\ LET rule   == detect_crisis(state.user_text)
           asked  == rule = "none" /\ cfg.moderation
           mod    == IF rule # "none" THEN NoneStr
                     ELSE _moderation_label_llm(cfg.moderation, cfg.moderation_reply)
           crisis == IF rule # "none" THEN rule
                     ELSE IF mod = NoneStr THEN "none" ELSE mod
       IN  /\ calls' = calls \o <<"detect_crisis">>
                             \o (IF asked THEN <<"moderation">> ELSE <<>>)
           /\ failed' = failed \cup (IF asked /\ cfg.moderation_reply = HttpFailure
                                     THEN {"moderation"} ELSE {})
           /\ AfterRiskCheck([state EXCEPT !.crisis = crisis])
    /\ UNCHANGED <<loop_vars, endpoint, cfg, ret, strategy_source, draft_msg, crit, delivered, response,
                   chunks, index>>

\* step 2: detect_mood(state.user_text) or "neutral"; the model call can raise
Mood ==
    /\ pc = "Mood"
    /\ calls' = Append(calls, "detect_mood")
    /\ \/ \E label \in MoodLabels :
             /\ state' = [state EXCEPT !.mood = label]
             /\ pc' = "Gate"
             /\ UNCHANGED failed
       \/ /\ pc' = "Raise"
          /\ failed' = failed \cup {"detect_mood"}
          /\ UNCHANGED state
    /\ UNCHANGED <<loop_vars, endpoint, cfg, ret, strategy_source, draft_msg, crit, result, delivered,
                   response, chunks, snap, index>>

\* the draft run_pipeline assembles around the chosen step
AdviceDraft(step) ==
    <<"B", "a", "s", "e", "d", " ", "o", "n", " ", "w", "h", "a", "t", " ", "y", "o", "u", " ", "s",
        "h", "a", "r", "e", "d", ",", " ", "a", " ", "t", "i", "n", "y", " ", "n", "e", "x", "t",
        " ", "s", "t", "e", "p", " ", "y", "o", "u", " ", "c", "o", "u", "l", "d", " ", "t", "r",
        "y", " ", "i", "s", ":", "\n", "\n", "-", " ">> \o step
        \o <<"\n", "\n", "I", "f", " ", "t", "h", "a", "t", " ", "d", "o", "e", "s", "n", "RSQUO",
            "t", " ", "f", "i", "t", ",", " ", "t", "e", "l", "l", " ", "m", "e", " ", "w", "h",
            "a", "t", " ", "f", "e", "e", "l", "s", " ", "h", "a", "r", "d", " ", "a", "n", "d",
            " ", "w", "e", "RSQUO", "l", "l", " ", "a", "d", "j", "u", "s", "t", " ", "i", "t", " ",
            "t", "o", "g", "e", "t", "h", "e", "r", ".">>

\* what a converse() call adds to failed: "_candidate" when one of its generation calls
\* raised, "converse" when all of them did and no generated text was left
ConverseFailures(reply) ==
    (IF reply.raised > 0 THEN {"_candidate"} ELSE {})
        \cup (IF reply.made > 0 /\ reply.raised = reply.made THEN {"converse"} ELSE {})

\* step 3, advice branch: best_strategy_entry and the draft (the conversation branch
\* when no entry is returned)
Advice ==
    /\ pc = "Gate"
    /\ _should_offer_step(state.user_text, state.mood)
    /\ \E idx \in {IF index = NotBuilt THEN BuildIndex(cfg.db) ELSE index} :
       \E entry \in {best_strategy_entry(idx, state.user_text, state.mood, state.history)} :
          /\ index' = idx
          /\ IF entry # None
             THEN /\ state' = [state EXCEPT !.strategy = entry.step, !.advice_given = TRUE]
                  /\ strategy_source' = [name |-> entry.source_name, url |-> entry.source_url]
                  /\ draft_msg' = AdviceDraft(entry.step)
                  /\ calls' = Append(calls, "best_strategy_entry")
                  /\ UNCHANGED failed
             ELSE \E reply \in converse(state.user_text, state.crisis) :
                     /\ draft_msg' = reply.text
                     /\ failed' = failed \cup ConverseFailures(reply)
                     /\ state' = [state EXCEPT !.strategy = <<>>, !.advice_given = FALSE]
                     /\ strategy_source' = None
                     /\ calls' = calls \o <<"best_strategy_entry", "converse">>
    /\ pc' = "StrategyCheck"
    /\ UNCHANGED <<loop_vars, endpoint, cfg, ret, crit, result, delivered, response, chunks, snap>>

\* step 3, conversation branch
Converse ==
    /\ pc = "Gate"
    /\ ~_should_offer_step(state.user_text, state.mood)
    /\ \E reply \in converse(state.user_text, state.crisis) :
          /\ draft_msg' = reply.text
          /\ failed' = failed \cup ConverseFailures(reply)
    /\ state' = [state EXCEPT !.strategy = <<>>, !.advice_given = FALSE]
    /\ strategy_source' = None
    /\ calls' = Append(calls, "converse")
    /\ pc' = "StrategyCheck"
    /\ UNCHANGED <<loop_vars, endpoint, cfg, ret, crit, result, delivered, response, chunks, snap, index>>

\* the defence against an unsafe strategy text
StrategyCheck ==
    /\ pc = "StrategyCheck"
    /\ IF detect_crisis(state.strategy) # "none"
       THEN ReturnCrisis([state EXCEPT !.crisis = "self_harm"])
       ELSE /\ pc' = "Encourage"
            /\ UNCHANGED <<state, result, snap>>
    /\ UNCHANGED <<loop_vars, endpoint, cfg, failed, ret, strategy_source, draft_msg, crit, calls, delivered,
                   response, chunks, index>>

\* step 4: encourage(...)
Encourage ==
    /\ pc = "Encourage"
    /\ \E reply \in encourage(state.user_text, state.strategy, state.crisis) :
          state' = [state EXCEPT !.encouragement = reply]
    /\ calls' = Append(calls, "encourage")
    /\ pc' = "Critic"
    /\ UNCHANGED <<loop_vars, endpoint, cfg, failed, ret, strategy_source, draft_msg, crit, result, delivered,
                   response, chunks, snap, index>>

\* a step 5 that takes the draft as it is, without the critic
CriticSkipped ==
    /\ pc = "Critic"
    /\ state' = [state EXCEPT !.encouragement = draft_msg]
    /\ pc' = "Repair"
    /\ UNCHANGED <<loop_vars, endpoint, cfg, failed, ret, strategy_source, draft_msg, crit, result, calls,
                   delivered, response, chunks, snap, index>>

\* step 5: critic_fix on the draft; a rejection ends the turn in crisis, a failed
\* rewrite call raises out of run_pipeline
Critic ==
    /\ pc = "Critic"
    /\ calls' = Append(calls, "critic_fix")
    /\ \E c \in critic_fix(draft_msg, IF state.advice_given THEN state.strategy ELSE <<>>) :
          IF c = Raised
          THEN /\ pc' = "Raise"
               /\ failed' = failed \cup {"critic_fix"}
               /\ UNCHANGED <<state, crit, result, snap>>
          ELSE /\ crit' = c
               /\ UNCHANGED failed
               /\ IF ~c.ok
                  THEN ReturnCrisis([state EXCEPT !.crisis = "self_harm"])
                  ELSE /\ state' = [state EXCEPT !.encouragement = c.message]
                       /\ pc' = "Repair"
                       /\ UNCHANGED <<result, snap>>
    /\ UNCHANGED <<loop_vars, endpoint, cfg, ret, strategy_source, draft_msg, delivered, response, chunks,
                   index>>

\* step 6: the final validate_and_repair and the returned dict
Repair ==
    /\ pc = "Repair"
    /\ snap' = state
    \* crisis_detected is state.crisis != "none" of the repaired state
    /\ \E repaired \in {validate_and_repair(state)} : Returns(repaired, repaired.crisis # "none")
    /\ UNCHANGED <<loop_vars, endpoint, cfg, failed, ret, strategy_source, draft_msg, crit, calls, delivered,
                   response, chunks, index>>

\* _handle_chat after run_pipeline returned: the row is stored, the response is sent
Respond ==
    /\ pc = "Return"
    /\ delivered' = Append(delivered, result.encouragement)
    /\ response' = "ok"
    /\ pc' = "Done"
    /\ UNCHANGED <<loop_vars, endpoint, cfg, failed, ret, state, strategy_source, draft_msg, crit, result, calls,
                   chunks, snap, index>>

\* an exception left run_pipeline: /chat lets it through (HTTP 500), /api/chat answers
\* with the chat_failed JSON (HTTP 500); neither sends a message
Fail ==
    /\ pc = "Raise"
    /\ response' = IF endpoint = "api_chat" THEN "chat_failed" ELSE "error_500"
    /\ pc' = "Done"
    /\ UNCHANGED <<loop_vars, endpoint, cfg, failed, ret, state, strategy_source, draft_msg, crit, result, calls,
                   delivered, chunks, snap, index>>

\* /chat/stream: the crisis short-circuit on the user text, else the stream is opened
StreamStart ==
    /\ pc = "Start"
    /\ endpoint = "stream"
    /\ calls' = Append(calls, "detect_crisis")
    /\ LET crisis_type == detect_crisis(state.user_text)
       IN  IF crisis_type # "none"
           THEN /\ delivered' = Append(delivered, IF crisis_type = "self_harm"
                                                  THEN CRISIS_MESSAGE_SELF
                                                  ELSE CRISIS_MESSAGE_OTHERS)
                /\ state' = [state EXCEPT !.crisis = crisis_type]
                /\ response' = "ok"
                /\ pc' = "Done"
           ELSE /\ response' = "ok"
                /\ pc' = "Streaming"
                /\ UNCHANGED <<delivered, state>>
    /\ UNCHANGED <<loop_vars, endpoint, cfg, failed, ret, strategy_source, draft_msg, crit, result, chunks, snap,
                   index>>

\* generator(): one chunk of the completion is added to the accumulated text and sent
StreamChunk ==
    /\ pc = "Streaming"
    /\ chunks < MaxChunks
    /\ \E chunk \in {<<"T", "h", "a", "t", " ", "s", "o", "u", "n", "d", "s", " ">>, <<"h", "e",
        "a", "v", "y", ".">>, <<"Y", "o", "u", " ", "c", "o", "u", "l", "d", " ">>, <<"h", "u", "r",
        "t", " ", "t", "h", "e", "m", " ", "b", "a", "c", "k", ".">>} :
          /\ delivered' = Append(delivered, chunk)
          /\ state' = [state EXCEPT !.encouragement = @ \o chunk]
    /\ chunks' = chunks + 1
    /\ UNCHANGED <<loop_vars, pc, endpoint, cfg, failed, ret, strategy_source, draft_msg, crit, result, calls,
                   response, snap, index>>

\* generator(): the completion ended, the row is stored with safety_flag "false"
StreamEnd ==
    /\ pc = "Streaming"
    /\ pc' = "Done"
    /\ UNCHANGED <<loop_vars, endpoint, cfg, failed, ret, state, strategy_source, draft_msg, crit, result, calls,
                   delivered, response, chunks, snap, index>>

\* a direct call of validate_and_repair on a TurnState built by the caller
UnitCall ==
    /\ pc = "Start"
    /\ endpoint = "unit"
    /\ snap' = state
    /\ state' = validate_and_repair(state)
    /\ pc' = "Repaired"
    /\ UNCHANGED <<loop_vars, endpoint, cfg, failed, ret, strategy_source, draft_msg, crit, result, calls,
                   delivered, response, chunks, index>>

\* validate_and_repair applied to its own output
UnitAgain ==
    /\ pc = "Repaired"
    /\ snap' = state
    /\ state' = validate_and_repair(state)
    /\ pc' = "RepairedAgain"
    /\ UNCHANGED <<loop_vars, endpoint, cfg, failed, ret, strategy_source, draft_msg, crit, result, calls,
                   delivered, response, chunks, index>>

\* a direct call of _should_offer_step
GateCall ==
    /\ pc = "Start"
    /\ endpoint = "gate"
    /\ ret' = [offer |-> _should_offer_step(state.user_text, state.mood)]
    /\ pc' = "Gated"
    /\ UNCHANGED <<loop_vars, endpoint, cfg, failed, state, strategy_source, draft_msg, crit, result, calls,
                   delivered, response, chunks, snap, index>>

\* a direct call of rank_strategies_from_db(user_text, mood, history, k): the first one
\* of the process, it builds the index
RankCall ==
    /\ pc = "Start"
    /\ endpoint = "rank"
    /\ \E idx \in {BuildIndex(cfg.db)}, k \in 1..MaxK :
          /\ index' = idx
          /\ ret' = [k |-> k, n |-> 1,
                     cards |-> rank_strategies_from_db(idx, state.user_text, state.mood,
                                                       state.history, k)]
    /\ pc' = "Ranked"
    /\ UNCHANGED <<loop_vars, endpoint, cfg, failed, state, strategy_source, draft_msg, crit, result, calls,
                   delivered, response, chunks, snap>>

\* the same call once more, on the index the process keeps
RankAgain ==
    /\ pc = "Ranked"
    /\ ret.n < MaxRankCalls
    /\ ret' = [ret EXCEPT !.n = ret.n + 1,
                          !.cards = rank_strategies_from_db(index, state.user_text, state.mood,
                                                            state.history, ret.k)]
    /\ UNCHANGED <<loop_vars, pc, endpoint, cfg, failed, state, strategy_source, draft_msg, crit, result,
                   calls, delivered, response, chunks, snap, index>>

\* the next POST of the same conversation after an advice turn: _handle_chat has stored
\* the turn (user_text and result["encouragement"]) and fetch_history_as_messages hands
\* the rows back oldest first, the user text and, when it is not empty, the message; the
\* conversations of the model stay below its limit of 8 rows. The user sends the same
\* text again, to /chat (/api/chat runs the same _handle_chat), in a conversation the
\* advice turn began; ret keeps the tag of the card the first turn chose.
FollowUp ==
    /\ pc = "Done"
    /\ endpoint = "chat"
    /\ state.history = <<>>
    /\ ret = None
    /\ response = "ok"
    /\ state.advice_given
    /\ ~result.crisis_detected
    /\ ret' = [first |-> best_strategy_entry(index, snap.user_text, snap.mood, snap.history).tag]
    /\ state' = TurnState(state.user_text,
                          state.history \o <<[role |-> "user", content |-> state.user_text]>>
                            \o (IF result.encouragement = <<>> THEN <<>>
                                ELSE <<[role |-> "assistant", content |-> result.encouragement]>>))
    /\ pc' = "Start"
    /\ strategy_source' = None
    /\ draft_msg' = <<>>
    /\ crit' = NoCrit
    /\ result' = NoResult
    /\ calls' = <<>>
    /\ response' = "none"
    /\ snap' = None
    /\ failed' = {}
    /\ delivered' = <<>>
    /\ UNCHANGED <<loop_vars, endpoint, cfg, chunks, index>>

\* the normaliser applied to the text, then to its own output
NormalizeCall ==
    /\ endpoint = "normalize"
    /\ \/ /\ pc = "Start"
          /\ ret' = [n |-> 1, prev |-> state.user_text,
                     text |-> _expand_slang(_normalize(state.user_text))]
       \/ /\ pc = "Normalized"
          /\ ret.n < MaxPasses
          /\ ret' = [n |-> ret.n + 1, prev |-> ret.text,
                     text |-> _expand_slang(_normalize(ret.text))]
    /\ pc' = "Normalized"
    /\ UNCHANGED <<loop_vars, endpoint, cfg, failed, state, strategy_source, draft_msg, crit, result, calls,
                   delivered, response, chunks, snap, index>>

Next ==
    \/ RiskCheck
    \/ Mood
    \/ Advice
    \/ Converse
    \/ StrategyCheck
    \/ Encourage
    \/ Critic
    \/ Repair
    \/ Respond
    \/ Fail
    \/ StreamStart
    \/ StreamChunk
    \/ StreamEnd
    \/ UnitCall
    \/ UnitAgain
    \/ GateCall
    \/ RankCall
    \/ RankAgain
    \/ NormalizeCall
    \/ FollowUp

Spec == Init /\ [][Next]_vars

-----------------------------------------------------------------------------
(* Concurrent first callers: several advice turns of one process           *)

\* threads instead of coroutines: a request may be resumed while another one is running
EventLoopPreempted(holder) == TRUE

\* The endpoints and run_pipeline are coroutines ("async def") of one event loop, and the
\* program starts no thread: a coroutine is resumed only when none is running, and it
\* runs until its next await. holder is the coroutine the loop is running.
EventLoopFree(holder) == holder = 0

\* the moderation answer is there and the loop is free: run_pipeline goes on after its
\* first await, with detect_mood
Resume(c) ==
    /\ co[c].at = "await"
    /\ EventLoopFree(loop)
    /\ loop' = c
    /\ co' = [co EXCEPT ![c].at = "mood"]
    /\ UNCHANGED <<made, index, turn_vars>>

\* detect_mood -> _scores_for -> _pipe(): lru_cache looks the handle up, and on a miss
\* calls pipeline(...) and stores what it returns
_pipe(c) ==
    /\ loop = c
    /\ \/ /\ co[c].at = "mood"
          /\ co' = [co EXCEPT ![c].at = IF made.handle THEN "ensure" ELSE "pipeline"]
          /\ UNCHANGED made
       \/ /\ co[c].at = "pipeline"
          /\ made' = [made EXCEPT !.pipe = made.pipe + 1, !.handle = TRUE]
          /\ co' = [co EXCEPT ![c].at = "ensure"]
    /\ UNCHANGED <<loop, index, turn_vars>>

\* best_strategy_entry -> _ensure_index_built(), statement by statement: the test of
\* _INDEX, the reset of the three globals, one card of the source per turn of the
\* for loop (a document appended, its terms counted), and _N_DOCS at the end
_ensure_index_built(c) ==
    /\ loop = c
    /\ \E source \in {SourceCards(_fetch_db_cards(cfg.db))} :
          \/ /\ co[c].at = "ensure"
             /\ co' = [co EXCEPT ![c].at = IF index # NotBuilt /\ index.docs # <<>>
                                           THEN "rank" ELSE "reset"]
             /\ UNCHANGED <<index, made>>
          \/ /\ co[c].at = "reset"
             /\ index' = IndexOver(<<>>)
             /\ made' = [made EXCEPT !.index = made.index + 1]
             /\ co' = [co EXCEPT ![c].at = "append", ![c].i = 1]
          \/ /\ co[c].at = "append"
             /\ co[c].i <= Len(source)
             /\ index' = [IndexOver(Append(index.docs, IndexDoc(source[co[c].i])))
                             EXCEPT !.n = index.n]
             /\ co' = [co EXCEPT ![c].i = co[c].i + 1]
             /\ UNCHANGED made
          \/ /\ co[c].at = "append"
             /\ co[c].i > Len(source)
             /\ index' = [index EXCEPT !.n = Len(index.docs)]
             /\ co' = [co EXCEPT ![c].at = "rank"]
             /\ UNCHANGED made
    /\ UNCHANGED <<loop, turn_vars>>

\* rank_strategies_from_db reads _INDEX, _VOCAB_DF and _N_DOCS; run_pipeline then reaches
\* its next await (encourage) and the loop is free again
RankRead(c) ==
    /\ loop = c
    /\ co[c].at = "rank"
    /\ co' = [co EXCEPT ![c].at = "done", ![c].saw = index]
    /\ loop' = 0
    /\ UNCHANGED <<made, index, turn_vars>>

\* NumCallers advice turns are waiting for the moderation answer when the index has not
\* been built; warm_models has built the mood model handle at startup, or has failed to
InitIndex ==
    /\ pc = "Start"
    /\ endpoint = "chat"
    /\ \E db \in {Unavailable, Rows(SeedRows), Rows(<<SeedRows[1], SeedRows[2]>>)} :
          cfg = [Offline EXCEPT !.db = db]
    /\ state = TurnState(FinalsText, <<>>)
    /\ strategy_source = None
    /\ draft_msg = <<>>
    /\ crit = NoCrit
    /\ result = NoResult
    /\ calls = <<>>
    /\ delivered = <<>>
    /\ response = "none"
    /\ chunks = 0
    /\ snap = None
    /\ index = NotBuilt
    /\ failed = {}
    /\ ret = None
    \* each coroutine is suspended in "await detect_crisis_with_moderation(...)"
    /\ co = [c \in 1..NumCallers |-> [at |-> "await", i |-> 0, saw |-> None]]
    /\ loop = 0
    /\ \E warm \in BOOLEAN : made = [index |-> 0, pipe |-> IF warm THEN 1 ELSE 0, handle |-> warm]

NextIndex ==
    \E c \in 1..NumCallers :
        \/ Resume(c)
        \/ _pipe(c)
        \/ _ensure_index_built(c)
        \/ RankRead(c)

SpecIndex == InitIndex /\ [][NextIndex]_vars


-----------------------------------------------------------------------------
(* Properties.  After a return of run_pipeline, and after a direct call     *)
(* of validate_and_repair, snap is the TurnState validate_and_repair was    *)
(* given and state is the one it returned.                                  *)

(* C1: every result run_pipeline returns for a turn in crisis (crisis_detected true, or a
   risk label other than "none" on the final state) has an empty strategy, advice_given
   false and the fixed crisis message as its message, and that message is what the
   endpoint sends; this holds on every path that ends in crisis. *)
CrisisResultIsFixed ==
    (result # NoResult /\ (result.crisis_detected \/ state.crisis # "none")) =>
        /\ result.crisis_detected
        /\ result.strategy = <<>>
        /\ ~result.advice_given
        /\ result.encouragement = CRISIS_MESSAGE
        /\ pc = "Done" => delivered = <<CRISIS_MESSAGE>>

\* a turn that got past the critic with a step and ended in crisis in the final scan
CrisisAfterPostScan ==
    /\ pc = "Done"
    /\ result # NoResult /\ result.crisis_detected
    /\ crit # NoCrit /\ crit.ok
    /\ snap.advice_given /\ snap.strategy # <<>>

(* C2: when the risk check of run_pipeline on the user text (rules or moderation) gives a
   verdict other than "none", that step ends in the return of the crisis result with only
   the risk check called, and nothing is called for the turn after a return: mood,
   retrieval, conversation, encouragement and critic are never invoked (the log of calls
   stays as it is until the next turn of the conversation starts with an empty one). *)
CrisisShortCircuit ==
    [][/\ (pc = "Start" /\ endpoint \in {"chat", "api_chat"} /\ state'.crisis # "none") =>
             /\ pc' = "Return"
             /\ result' # NoResult /\ result'.crisis_detected
             /\ \A i \in 1..Len(calls') : calls'[i] \in {"detect_crisis", "moderation"}
       /\ pc \in {"Return", "Done"} => (calls' = calls \/ (pc' = "Start" /\ calls' = <<>>))]_vars

\* a turn the moderation verdict ended, answered with only the risk check called
ShortCircuitedByModeration ==
    /\ pc = "Done"
    /\ result # NoResult /\ result.crisis_detected
    /\ calls = <<"detect_crisis", "moderation">>

(* C3: every piece of generated text that /chat, /api/chat or /chat/stream sends to the
   client (a text other than the fixed crisis messages) passes the output safety scan. *)
DeliveredTextIsScanned ==
    \A i \in 1..Len(delivered) :
        \/ delivered[i] \in {CRISIS_MESSAGE, CRISIS_MESSAGE_SELF, CRISIS_MESSAGE_OTHERS}
        \/ ~_likely_unsafe(delivered[i])

(* C4: validate_and_repair, given a TurnState with risk label "none" whose strategy or
   message the post-generation scan flags, returns a state with a crisis label, the fixed
   crisis message, an empty strategy and advice_given false. *)
PostScanForcesCrisis ==
    (/\ snap # None
     /\ snap.crisis = "none"
     /\ _likely_unsafe(snap.strategy) \/ _likely_unsafe(snap.encouragement)) =>
        /\ state.crisis # "none"
        /\ state.encouragement = CRISIS_MESSAGE
        /\ state.strategy = <<>>
        /\ ~state.advice_given

\* a pipeline turn whose chosen step, and not its message, was flagged by the final scan
FlaggedStepOverridden ==
    /\ endpoint = "chat"
    /\ pc = "Return"
    /\ snap.crisis = "none" /\ snap.advice_given
    /\ _likely_unsafe(snap.strategy) /\ ~_likely_unsafe(snap.encouragement)
    /\ state.crisis = "self_harm"

(* C5: in every result of run_pipeline and in every state validate_and_repair returns,
   advice_given true comes with a non-empty strategy. *)
AdviceHasStrategy ==
    /\ (result # NoResult /\ result.advice_given) => result.strategy # <<>>
    /\ (snap # None /\ state.advice_given) => state.strategy # <<>>

(* C6: in every result of run_pipeline with advice_given true the message contains the
   text of the chosen step in full, whatever the critic returned. *)
FinalMessageHasStep ==
    (result # NoResult /\ result.advice_given) =>
        Contains(result.encouragement, result.strategy)

(* C7: when advice_given is true and the message omits the chosen strategy text (risk
   label "none", nothing flagged by the scan), validate_and_repair appends the strategy
   text once, and validate_and_repair applied to its own output changes nothing. *)
RepairAppendsOnce ==
    /\ (/\ snap # None
        /\ snap.crisis = "none" /\ ~PostScanUnsafe(snap)
        /\ snap.advice_given /\ snap.strategy # <<>>
        /\ ~Contains(snap.encouragement, snap.strategy)) =>
            state.encouragement = EchoAppend(snap)
    /\ pc = "RepairedAgain" => state = snap

(* C8: in every result of run_pipeline and in every state validate_and_repair returns,
   advice_given false comes with an empty strategy. *)
NoAdviceNoStrategy ==
    /\ (result # NoResult /\ ~result.advice_given) => result.strategy = <<>>
    /\ (snap # None /\ ~state.advice_given) => state.strategy = <<>>

\* validate_and_repair cleared the strategy of a clean state that offered no advice
UnofferedStrategyCleared ==
    /\ pc = "Repaired"
    /\ snap.crisis = "none" /\ ~PostScanUnsafe(snap)
    /\ ~snap.advice_given /\ snap.strategy # <<>>
    /\ state.crisis = "none" /\ state.strategy = <<>>

(* C9: when critic_fix answers with ok false, run_pipeline returns the crisis result:
   crisis_detected true, empty strategy, advice_given false, the fixed crisis message;
   the endpoint sends that message and never the draft. *)
CriticRejectionIsCrisis ==
    (crit # NoCrit /\ ~crit.ok) =>
        /\ result # NoResult
        /\ result.crisis_detected
        /\ result.strategy = <<>>
        /\ ~result.advice_given
        /\ result.encouragement = CRISIS_MESSAGE
        /\ state.crisis # "none"
        /\ pc = "Done" => delivered = <<CRISIS_MESSAGE>> /\ response = "ok"

\* a turn whose draft the critic rejected, answered
CriticRejectedDraft ==
    /\ pc = "Done"
    /\ crit # NoCrit /\ ~crit.ok
    /\ draft_msg # <<>> /\ draft_msg # CRISIS_MESSAGE
    /\ delivered # <<>>

(* C10: a failure of the rewrite call of critic_fix (network error, timeout, non-2xx
   status) is fatal for the turn: run_pipeline raises, there is no result and nothing is
   sent; a result that is not a crisis result exists only after the critic answered ok,
   with "clean" only for a draft that needed no rewrite. *)
CriticFailureIsFatal ==
    LET reviewed == calls # <<>> /\ calls[Len(calls)] = "critic_fix"
    IN  /\ (reviewed /\ crit = NoCrit) =>
              /\ pc \in {"Raise", "Done"}
              /\ result = NoResult
              /\ delivered = <<>>
              /\ response \in {"none", "error_500", "chat_failed"}
        /\ (reviewed /\ crit # NoCrit /\ crit.ok) =>
              crit.reason = IF CriticWantsRewrite(draft_msg) THEN "rewritten" ELSE "clean"
        /\ (result # NoResult /\ ~result.crisis_detected) =>
              reviewed /\ crit # NoCrit /\ crit.ok

\* /api/chat answered chat_failed after the rewrite call of the critic failed
CriticFailureAnswered ==
    /\ pc = "Done"
    /\ endpoint = "api_chat"
    /\ calls # <<>> /\ calls[Len(calls)] = "critic_fix"
    /\ crit = NoCrit
    /\ response = "chat_failed"


-----------------------------------------------------------------------------
(* C11: a network or timeout failure of the generation call of the conversation branch
   (the _candidate calls of converse) is a hard failure for the turn: once one of them
   has failed, the turn has no result and nothing is sent to the client, whatever the
   endpoint answers afterwards is an error. *)
GenerationFailureIsFatal ==
    "_candidate" \in failed =>
        /\ result = NoResult
        /\ delivered = <<>>
        /\ response \in {"none", "error_500", "chat_failed"}

(* C12: a failure of the mood model never aborts the pipeline: once detect_mood has
   failed, the mood is neutral, run_pipeline goes on to the gate and does not raise, and
   the request ends with a result. *)
MoodFailureIsAdvisory ==
    "detect_mood" \in failed =>
        /\ pc # "Raise"
        /\ state.mood = <<"n", "e", "u", "t", "r", "a", "l">>
        /\ pc = "Done" => result # NoResult

\* the turn went through AdviceBranch: run_pipeline asked the retriever for a step
AdviceBranchEntered == \E i \in 1..Len(calls) : calls[i] = "best_strategy_entry"

(* C13: a turn with fewer than MinStepTokens whitespace-separated tokens never enters
   AdviceBranch, for every mood and whatever help, question or distress signals it
   has: _should_offer_step answers False, run_pipeline does not ask for a step, and the
   result has advice_given false. *)
ShortTurnGetsNoStep ==
    WordCount(state.user_text) < MinStepTokens =>
        /\ (endpoint = "gate" /\ pc = "Gated") => ~ret.offer
        /\ endpoint \in {"chat", "api_chat"} =>
              /\ ~AdviceBranchEntered
              /\ ~state.advice_given
              /\ result # NoResult => ~result.advice_given /\ result.strategy = <<>>

\* a four-token turn that asks for help, is a question and has distress language was
\* answered on the conversation branch
ShortHelpTurnConversed ==
    /\ pc = "Done"
    /\ endpoint = "chat"
    /\ WordCount(state.user_text) = MinStepTokens - 1
    /\ ReSearch(RE_HELP, Lower(state.user_text))
    /\ Contains(state.user_text, <<"?">>)
    /\ DistressSearch(Lower(state.user_text))
    /\ ~AdviceBranchEntered
    /\ \E i \in 1..Len(calls) : calls[i] = "converse"
    /\ result # NoResult /\ ~result.advice_given

(* C14: when the mood is joy or optimism, AdviceBranch is entered only if the turn has
   an explicit help request: without one, _should_offer_step answers False and
   run_pipeline does not ask for a step, even for a question or for distress language. *)
PositiveMoodNeedsHelp ==
    (Lower(state.mood) \in {<<"j", "o", "y">>, <<"o", "p", "t", "i", "m", "i", "s",
        "m">>} /\ ~ReSearch(RE_HELP, Lower(state.user_text))) =>
        /\ (endpoint = "gate" /\ pc = "Gated") => ~ret.offer
        /\ endpoint \in {"chat", "api_chat"} =>
              /\ ~AdviceBranchEntered
              /\ result # NoResult => ~result.advice_given

\* the gate refused a turn of optimism that is a question with distress language and
\* long enough, and has no help request
OptimismQuestionRefused ==
    /\ endpoint = "gate" /\ pc = "Gated"
    /\ state.mood = <<"o", "p", "t", "i", "m", "i", "s", "m">>
    /\ ~ReSearch(RE_HELP, Lower(state.user_text))
    /\ Contains(state.user_text, <<"?">>)
    /\ DistressSearch(Lower(state.user_text))
    /\ WordCount(state.user_text) >= MinStepTokens
    /\ ~ret.offer

(* C15: a turn of at least MinStepTokens tokens whose mood is sadness, distress or
   anger is admitted to AdviceBranch, also when it has no help request, is no question
   and has no distress language: _should_offer_step answers True and run_pipeline asks
   for a step. *)
SupportMoodAdmits ==
    (Lower(state.mood) \in {<<"s", "a", "d", "n", "e", "s", "s">>, <<"d", "i", "s", "t", "r", "e",
        "s", "s">>, <<"a", "n", "g", "e", "r">>}
        /\ WordCount(state.user_text) >= MinStepTokens) =>
        /\ (endpoint = "gate" /\ pc = "Gated") => ret.offer
        /\ (endpoint \in {"chat", "api_chat"} /\ result # NoResult /\ ~result.crisis_detected) =>
              AdviceBranchEntered

(* C16: the disambiguation guard of the rules: a turn in which kms occurs together with
   "microsoft kms" or "key management service" is classified none by the risk check
   (the moderation service is off), and the turn "kms" is classified self_harm. *)
KmsGuardHolds ==
    (endpoint \in {"chat", "api_chat"} /\ calls = <<"detect_crisis">>) =>
        /\ (Contains(Lower(state.user_text), <<"m", "i", "c", "r", "o", "s", "o", "f", "t", " ",
            "k", "m", "s">>)
               \/ Contains(Lower(state.user_text), <<"k", "e", "y", " ", "m", "a", "n", "a", "g",
                   "e", "m", "e", "n", "t", " ", "s", "e", "r", "v", "i", "c", "e">>)) =>
              /\ detect_crisis(state.user_text) = "none"
              /\ state.crisis = "none"
              /\ result = NoResult
        /\ state.user_text = <<"k", "m", "s">> =>
              /\ detect_crisis(state.user_text) = "self_harm"
              /\ state.crisis = "self_harm"

(* C17: the moderation service is a pure fallback of detect_crisis_with_moderation: it is
   called only when the rules return none; a rule verdict of self_harm or other_harm is
   returned unchanged; and when the call fails (timeout, non-2xx status, a body that
   does not parse) or answers with a label that is not recognised, the verdict is the
   one of the rules, none. *)
ModerationIsFallback ==
    LET rule  == detect_crisis(state.user_text)
        asked == \E i \in 1..Len(calls) : calls[i] = "moderation"
    IN  endpoint \in {"chat", "api_chat"} =>
           /\ asked => rule = "none" /\ cfg.moderation
           /\ "moderation" \in failed => asked
           /\ (calls # <<>> /\ calls[Len(calls)] \in {"detect_crisis", "moderation"}) =>
                 /\ rule # "none" => state.crisis = rule /\ ~asked
                 /\ (rule = "none" /\ ~asked) => state.crisis = "none"
                 /\ (asked /\ cfg.moderation_reply \in {HttpFailure, <<"u", "n", "s", "u", "r", "e">>}) =>
                       /\ state.crisis = "none"
                       /\ pc = "Mood"
                       /\ result = NoResult

\* a turn answered without a crisis although the call of the moderation service failed
ModerationFailedQuietly ==
    /\ pc = "Done"
    /\ "moderation" \in failed
    /\ calls[2] = "moderation"
    /\ result # NoResult /\ ~result.crisis_detected
    /\ response = "ok"

(* C18: the fixed message that answers a crisis is the one of the risk kind, the same on
   every path: a self_harm verdict is answered with the self-harm crisis message and an
   other_harm verdict with the other-harm crisis message, by run_pipeline (/chat,
   /api/chat) as by /chat/stream. *)
CrisisMessageMatchesKind ==
    LET crisis_message == IF state.crisis = "self_harm" THEN CRISIS_MESSAGE_SELF
                          ELSE CRISIS_MESSAGE_OTHERS
    IN  /\ (endpoint = "stream" /\ state.crisis # "none" /\ pc = "Done") =>
              delivered = <<crisis_message>>
        /\ (endpoint \in {"chat", "api_chat"} /\ result # NoResult /\ result.crisis_detected) =>
              /\ state.crisis # "none"
              /\ result.encouragement = crisis_message
              /\ pc = "Done" => delivered = <<crisis_message>>

(* C19: the retriever never refuses to operate: whether the table has rows, is empty or
   cannot be read, and whatever the history, rank_strategies_from_db with k >= 1 returns
   a non-empty list of at most k cards, exactly one card for k = 1, on the first call
   and on a repeated one; best_strategy_entry then never returns None, and run_pipeline
   never falls back from AdviceBranch to converse. *)
RetrieverNeverEmpty ==
    /\ (endpoint = "rank" /\ pc = "Ranked") =>
          /\ ret.cards # <<>>
          /\ Len(ret.cards) <= ret.k
          /\ ret.k = 1 => Len(ret.cards) = 1
          /\ best_strategy_entry(index, state.user_text, state.mood, state.history) # None
    /\ (endpoint \in {"chat", "api_chat"} /\ AdviceBranchEntered) =>
          /\ \A i \in 1..Len(calls) : calls[i] # "converse"
          /\ index # NotBuilt
          /\ result = NoResult => (state.advice_given /\ strategy_source # None)

\* the ranker answered with one card for k = 1 although the table has a single row and
\* the history shows its step as the last suggestion
RankedFromLastCardOnly ==
    /\ endpoint = "rank" /\ pc = "Ranked"
    /\ cfg.db.up /\ Len(cfg.db.rows) = 1
    /\ _last_tag_from_history(index, state.history) = cfg.db.rows[1].tag
    /\ ret.k = 1 /\ ret.n = MaxRankCalls
    /\ Len(ret.cards) = 1

(* C20: anti-repetition: when the most recent assistant turn of the history that holds
   a card's step identifies a last-suggested tag, rank_strategies_from_db does not
   return a card of that tag in first position, unless no card of another tag is at
   hand: none in the index and none in the list it returns; on the first call and on a
   repeated one. *)
NoImmediateRepetition ==
    (endpoint = "rank" /\ pc = "Ranked") =>
        LET last_tag == _last_tag_from_history(index, state.history)
        IN  (last_tag # NoneStr /\ ret.cards # <<>> /\ ret.cards[1].tag = last_tag) =>
               /\ \A i \in 1..Len(index.docs) : index.docs[i].tag = last_tag
               /\ \A j \in 1..Len(ret.cards) : ret.cards[j].tag = last_tag

(* C21: retrieval determinism: for a fixed table, rank_strategies_from_db returns the
   same ordered list for the same (user_text, mood, history, k) on every call, the call
   that builds the index included, and the index is not rebuilt; and in the list of a
   call without a last-suggested tag, a card stands before every card of lower score and,
   among cards of equal score, before those that come later in the corpus. *)
RankingIsDeterministic ==
    /\ [][RankAgain => (ret'.cards = ret.cards /\ index' = index)]_vars
    /\ [](  (endpoint = "rank" /\ pc = "Ranked"
               /\ _last_tag_from_history(index, state.history) = NoneStr) =>
            \E sc \in {Scores(index, Lower(state.mood), _tokens(Lower(state.user_text)),
                              CategoryTags(Lower(state.user_text)))} :
               LET pos(c) == CHOOSE i \in 1..Len(index.docs) :
                                /\ index.docs[i].tag = c.tag /\ index.docs[i].label = c.label
                                /\ \A h \in 1..(i - 1) : index.docs[h].tag # c.tag
                                                             \/ index.docs[h].label # c.label
                   own   == {j \in 1..Len(ret.cards) :
                                \E i \in 1..Len(index.docs) : index.docs[i].tag = ret.cards[j].tag}
               IN  \A j \in own, h \in own :
                      j < h => \/ sc[pos(ret.cards[j])] > sc[pos(ret.cards[h])]
                               \/ /\ sc[pos(ret.cards[j])] = sc[pos(ret.cards[h])]
                                  /\ pos(ret.cards[j]) < pos(ret.cards[h]))

\* a repeated call whose list has two cards of equal score, in the order of the corpus
TieKeptCorpusOrder ==
    /\ endpoint = "rank" /\ pc = "Ranked" /\ ret.n = MaxRankCalls
    /\ state.history = <<>>
    /\ Len(ret.cards) >= 2
    /\ \E sc \in {Scores(index, Lower(state.mood), _tokens(Lower(state.user_text)),
                          CategoryTags(Lower(state.user_text)))} :
          \E i \in 1..Len(index.docs), h \in 1..Len(index.docs) :
             /\ i < h /\ sc[i] = sc[h]
             /\ \E j \in 1..(Len(ret.cards) - 1) :
                   /\ ret.cards[j].tag = index.docs[i].tag
                   /\ ret.cards[j + 1].tag = index.docs[h].tag

(* C23: fixed rule precedence of detect_crisis: the declarative fast paths ("i am a
   danger", "im a threat", ...), then the self-harm patterns, then the other-harm
   patterns, then the coarse backstop (a danger-to/threat-to token with a third-party
   token); the first family that matches decides. A turn that matches a self-harm
   pattern and no declarative fast path is labelled self_harm by the risk check, also
   when the coarse backstop matches. *)
RulePrecedenceIsFixed ==
    (endpoint \in {"chat", "api_chat"} /\ calls = <<"detect_crisis">>) =>
        \E e \in {_expand_slang(_normalize(state.user_text))} :
           LET declarative == \E d \in {<<"i", "m", " ", "d", "a", "n", "g", "e", "r">>, <<"i", " ",
               "a", "m", " ", "d", "a", "n", "g", "e", "r">>, <<"i", "m", " ", "d", "a", "n", "g",
               "e", "r", "o", "u", "s">>,
                                         <<"i", " ", "a", "m", " ", "d", "a", "n", "g", "e", "r",
                                             "o", "u", "s">>, <<"i", "m", " ", "a", " ", "d", "a",
                                             "n", "g", "e", "r">>, <<"i", " ", "a", "m", " ", "a",
                                             " ", "d", "a", "n", "g", "e", "r">>,
                                         <<"i", "m", " ", "a", " ", "t", "h", "r", "e", "a",
                                             "t">>, <<"i", " ", "a", "m", " ", "a", " ", "t", "h",
                                             "r", "e", "a", "t">>} : Contains(e, d)
           IN  /\ declarative => state.crisis = "other_harm"
               /\ (~declarative /\ _self_harm_re(e)) => state.crisis = "self_harm"
               /\ (~declarative /\ ~_self_harm_re(e) /\ _other_harm_re(e)) =>
                     state.crisis = "other_harm"

(* C24: stage ordering of run_pipeline: whenever a result is returned, validate_and_repair
   was the last change of the TurnState and the result is built from its output; on a
   turn that ends without a crisis the collaborators were called in the order risk
   check, mood estimate, gate branch (converse, or best_strategy_entry), encourage,
   critic, and the critic was called exactly once, on the draft, its message being
   what validate_and_repair received. *)
StagesInOrder ==
    (endpoint \in {"chat", "api_chat"} /\ result # NoResult) =>
        /\ snap # None
        /\ state = validate_and_repair(snap)
        /\ result.encouragement = state.encouragement
        /\ result.strategy = state.strategy
        /\ result.advice_given = state.advice_given
        /\ result.mood = state.mood
        /\ ~result.crisis_detected =>
              /\ calls \in {risk \o <<"detect_mood">> \o branch \o <<"encourage", "critic_fix">> :
                              risk \in {<<"detect_crisis">>, <<"detect_crisis", "moderation">>},
                              branch \in {<<"converse">>, <<"best_strategy_entry">>,
                                          <<"best_strategy_entry", "converse">>}}
              /\ crit # NoCrit /\ crit.ok
              /\ crit \in critic_fix(draft_msg, IF snap.advice_given THEN snap.strategy ELSE <<>>)
              /\ snap.encouragement = crit.message

\* an advice turn answered without a crisis, after the critic rewrote the draft
AdviceTurnReviewed ==
    /\ pc = "Done"
    /\ result # NoResult /\ ~result.crisis_detected /\ result.advice_given
    /\ calls = <<"detect_crisis", "detect_mood", "best_strategy_entry", "encourage", "critic_fix">>
    /\ crit # NoCrit /\ crit.reason = "rewritten"
    /\ delivered = <<state.encouragement>>

(* C26: distinct tags: the list rank_strategies_from_db returns has no two cards of the
   same tag, for every table, history and k, also when the last-suggested card is
   appended back and when the list is padded from FALLBACK_CARDS. *)
RankedTagsDistinct ==
    (endpoint = "rank" /\ pc = "Ranked") =>
        \A i \in 1..Len(ret.cards), j \in 1..Len(ret.cards) :
           i # j => ret.cards[i].tag # ret.cards[j].tag

(* C27: corpus de-duplication: the index holds a card once, its first occurrence in the
   corpus: no two documents of the index are the same card (the index has no id; a card
   is told by its tag and label, as best_strategy_entry does), and the document count
   and the document frequencies count each card once. *)
IndexHoldsCardsOnce ==
    index # NotBuilt =>
        LET cards == {<<index.docs[i].tag, index.docs[i].label>> : i \in 1..Len(index.docs)}
        IN  /\ \A i \in 1..Len(index.docs), j \in 1..Len(index.docs) :
                  i # j => <<index.docs[i].tag, index.docs[i].label>>
                              # <<index.docs[j].tag, index.docs[j].label>>
            /\ index.n = Cardinality(cards)
            /\ \A t \in DOMAIN index.df : index.df[t] <= Cardinality(cards)

(* C29: every result of run_pipeline with crisis_detected true has strategy_source None,
   whether the crisis came from the input, from an unsafe strategy text or from a
   rejection by the critic on the advice branch. *)
CrisisResultHasNoSource ==
    (result # NoResult /\ result.crisis_detected) => result.strategy_source = None

(* C30: identity and smalltalk veto: a turn that asks the assistant's name or is
   smalltalk ("how are you", "what's up", "wyd") never enters AdviceBranch, for every
   mood, also when it has a help request or distress language and MinStepTokens tokens or
   more: _should_offer_step answers False, run_pipeline does not ask for a step and the
   result has advice_given false. *)
SmalltalkGetsNoStep ==
    (ReSearch(RE_ASK_NAME, Lower(state.user_text)) \/ ReSearch(RE_SMALL, Lower(state.user_text))) =>
        /\ (endpoint = "gate" /\ pc = "Gated") => ~ret.offer
        /\ endpoint \in {"chat", "api_chat"} =>
              /\ ~AdviceBranchEntered
              /\ result # NoResult => ~result.advice_given /\ result.strategy = <<>>

\* the gate refused an identity question of a sad user that also asks for help, has
\* distress language and is long enough
NameQuestionWithHelpRefused ==
    /\ endpoint = "gate" /\ pc = "Gated"
    /\ ReSearch(RE_ASK_NAME, Lower(state.user_text))
    /\ ReSearch(RE_HELP, Lower(state.user_text))
    /\ DistressSearch(Lower(state.user_text))
    /\ WordCount(state.user_text) >= MinStepTokens
    /\ state.mood = <<"s", "a", "d", "n", "e", "s", "s">>
    /\ ~ret.offer

\* C22: the normaliser is idempotent: applied to its own output (the second and every
\* later pass) it returns that output unchanged, for every input string.
NormalizerIdempotent ==
    (pc = "Normalized" /\ ret.n >= 2) => ret.text = ret.prev

\* C28: over two consecutive advice turns of one conversation, the second of which has
\* the first turn's final message as its latest assistant turn, the last-suggested-tag
\* scan of the second turn finds the tag of the first turn's card, and the second turn
\* does not choose a card of that tag whenever the index has a card of another tag.
NextTurnAvoidsLastTag ==
    (endpoint \in {"chat", "api_chat"} /\ ret # None /\ pc = "StrategyCheck"
        /\ state.advice_given
        /\ state.history[Len(state.history)].role = "assistant"
        /\ \E i \in 1..Len(index.docs) : index.docs[i].tag # ret.first) =>
        /\ _last_tag_from_history(index, state.history) = ret.first
        /\ \A i \in 1..Len(index.docs) :
              index.docs[i].step = state.strategy => index.docs[i].tag # ret.first

\* C25: the strategy index and the mood model handle are built at most once per
\* process; of several first callers served at the same time none rebuilds the index,
\* and every one of them ranks against the complete index (all documents of the source,
\* with the final document count and document frequencies).
IndexBuiltOnce ==
    /\ made.index <= 1
    /\ made.pipe <= 1
    /\ \A c \in 1..NumCallers : co[c].saw # None => co[c].saw = BuildIndex(cfg.db)

\* two of the requests in flight have ranked, and the index was built once
TwoCallersRankedOneBuild ==
    \E c, d \in 1..NumCallers :
        /\ co[c].at = "done"
        /\ co[d].at = "done"
        /\ c # d
        /\ made.index = 1
=============================================================================
